---- MODULE Spec2Model ----
(***************************************************************************)
(* Model of the acquisition / normalisation / caching pipeline of          *)
(* dashboard_meteorologico:                                                *)
(*   - CacheManager           (src/src/processors/cache_manager.py)        *)
(*   - BaseWeatherSource._retry_with_backoff                               *)
(*                            (src/src/data_sources/base_source.py)        *)
(*   - DataProcessor          (src/src/processors/data_processor.py)       *)
(*   - detect_anomalies       (src/src/processors/validators.py)           *)
(*   - Dashboard.get_data_for_location                                     *)
(*                            (src/src/visualizers/dashboard.py)           *)
(*   - get_current_weather    (src/src/api/main.py) and main (src/main.py) *)
(*                                                                         *)
(* Python values are tagged records: None, numbers (exact rationals n/d),  *)
(* strings, dicts (functions from key strings) and lists (sequences).      *)
(***************************************************************************)
EXTENDS Integers, Sequences, FiniteSets, TLC

VARIABLES
    backend,            \* DISKCACHE_AVAILABLE: "disk" or "memory"
    cache,              \* CacheManager.cache
    _cache_timestamps,  \* CacheManager._cache_timestamps (memory tier only)
    now,                \* the wall clock read by datetime.now() / time.time()
    call,               \* the cache call that has just returned, with its result
    written             \* history: per logical query, the last set issued for it
                        \* (live until the next invalidate call)

cacheVars == <<backend, cache, _cache_timestamps, now, call, written>>

VARIABLES
    max_attempts,           \* _retry_with_backoff: attempt budget of the call
    retry_backoff_factor,   \* BaseWeatherSource.retry_backoff_factor
    attempt,                \* loop variable of `for attempt in range(...)`
    last_exception,         \* local last_exception
    slept,                  \* arguments of the time.sleep calls made, in order
    raised,                 \* history: the exceptions func raised, in order
    outcome                 \* how the call ended: running, returned or raised

retryVars == <<max_attempts, retry_backoff_factor, attempt, last_exception,
               slept, raised, outcome>>

VARIABLES
    data_list,      \* combine_sources: the argument
    combined        \* combine_sources: pending, or how the call ended

combineVars == <<data_list, combined>>

VARIABLES
    caller,         \* who asks for current weather: "api" (REST handler),
                    \* "cli" (main) or "lib" (get_data_for_location itself)
    sources,        \* the registered providers, by name, in order
    request,        \* arguments of the request being served
    phase,          \* "idle", "loop" (inside `for source in ...`) or "done"
    pos,            \* position of the loop in the providers to use
    results,        \* results / data_list: the observations collected
    errors,         \* errors (api) / logged provider errors (dashboard)
    attempts,       \* history: what happened for each provider of the loop
    response,       \* what the caller's caller gets
    requests        \* number of requests started

acquireVars == <<caller, sources, request, phase, pos, results, errors,
                 attempts, response, requests>>

VARIABLES
    raw_data,       \* the dict given to standardize_data / detect_anomalies
    provider,       \* the `source` argument of standardize_data
    mapped,         \* `standardized` before _convert_units is applied
    standardized,   \* what standardize_data(raw_data, provider) did
    detected        \* what detect_anomalies(raw_data) did

normalizeVars == <<raw_data, provider, mapped, standardized, detected>>

VARIABLES
    api_key,        \* BaseWeatherSource.api_key of the provider called
    invocation,     \* the provider method called and its arguments
    outbound,       \* the HTTP request handed to the session
    answer          \* what the method returned or raised

sourceVars == <<api_key, invocation, outbound, answer>>

VARIABLES
    record_origin,  \* where the record comes from: "combine_sources" or the
                    \* "caller" itself
    record,         \* validate_and_clean: the dict passed, as the caller holds
                    \* it now
    record_before,  \* history: the dict as it was when the call was made
    cleaning        \* what validate_and_clean(record, location) did

cleanVars == <<record_origin, record, record_before, cleaning>>

VARIABLES
    forecast_call   \* the last get_forecast_for_location call: its arguments,
                    \* where the forecast came from and how the call ended

forecastVars == <<forecast_call>>

VARIABLES
    disk_cache,         \* a CacheManager on the durable tier: its store
    memory_cache,       \* a CacheManager on the memory tier: self.cache
    memory_timestamps,  \* and its self._cache_timestamps
    clock,              \* the clock both managers read
    both                \* the call just made on both, with each one's result

tierVars == <<disk_cache, memory_cache, memory_timestamps, clock, both>>

VARIABLES
    ref_tier,       \* the tier of the CacheManager whose entry is watched
    heap,           \* the dict objects alive in the process: identity -> items
    slot,           \* the entry of one key: none, the identity of the object
                    \* stored (memory tier) or its pickled items (durable)
    handles,        \* the identities of the objects the caller holds
    acquired,       \* the identities in the `results` list of the last
                    \* get_data_for_location call
    last_stored     \* history: the items of the value when set stored it

refVars == <<ref_tier, heap, slot, handles, acquired, last_stored>>

VARIABLES
    race_cache,     \* memory tier shared by the threads: self.cache
    race_stamps,    \* and self._cache_timestamps
    race_clock,     \* the clock the threads read
    threads,        \* per thread: the call it is in and where, or idle with
                    \* what its last call returned
    started,        \* number of calls started
    sets_done       \* history: the sets that have returned, in that order,
                    \* each with its value, its time and how many sets had
                    \* returned when it was entered

raceVars == <<race_cache, race_stamps, race_clock, threads, started,
              sets_done>>

VARIABLES
    _stations_cache,    \* SIATASource._stations_cache: None or the list
    station_threads,    \* per thread: where it is in get_stations, or idle
                        \* with what its last call returned
    station_calls,      \* number of get_stations calls started
    upstream            \* history: the answers to the requests for
                        \* datos/estaciones, in order

stationVars == <<_stations_cache, station_threads, station_calls, upstream>>

laterVars == <<cleanVars, forecastVars,
              tierVars,
              refVars,
              raceVars,
              stationVars>>

vars == <<cacheVars, retryVars, combineVars, acquireVars, normalizeVars,
          sourceVars, laterVars>>

coreVars == <<cacheVars, retryVars, combineVars, acquireVars, normalizeVars,
              sourceVars>>

exceptCache == <<retryVars, combineVars, acquireVars, normalizeVars,
                 sourceVars, laterVars>>
exceptRetry == <<cacheVars, combineVars, acquireVars, normalizeVars,
                 sourceVars, laterVars>>
exceptCombine == <<cacheVars, retryVars, acquireVars, normalizeVars,
                   sourceVars, laterVars>>
exceptAcquire == <<retryVars, combineVars, normalizeVars, sourceVars,
                   laterVars>>
exceptNormalize == <<cacheVars, retryVars, combineVars, acquireVars,
                     sourceVars, laterVars>>
exceptSource == <<cacheVars, retryVars, combineVars, acquireVars,
                  normalizeVars, laterVars>>
exceptClean == <<coreVars, forecastVars,
    tierVars,
    refVars,
    raceVars,
    stationVars>>
exceptTiers == <<coreVars, cleanVars, forecastVars,
    refVars,
    raceVars,
    stationVars>>
exceptRef == <<coreVars, cleanVars, forecastVars, tierVars,
    raceVars,
    stationVars>>
exceptRace == <<coreVars, cleanVars, forecastVars, tierVars, refVars,
    stationVars>>
exceptStations == <<coreVars, cleanVars, forecastVars, tierVars, refVars,
                    raceVars>>
exceptForecast == <<retryVars, combineVars, normalizeVars, sourceVars,
                    cleanVars,
    tierVars,
    refVars,
    raceVars,
    stationVars>>

(***************************************************************************)
(* Python values                                                           *)
(***************************************************************************)
PyNone == [t |-> "none"]
PyStr(s) == [t |-> "str", s |-> s]
PyNum(n, d) == [t |-> "num", n |-> n, d |-> d]
PyInt(n) == PyNum(n, 1)
PyDict(f) == [t |-> "dict", v |-> f]
PyList(s) == [t |-> "list", v |-> s]
EmptyMap == [k \in {} |-> PyNone]

(***************************************************************************)
(* Bounds of the model                                                     *)
(***************************************************************************)
\* The clock runs from 0 to MaxTime seconds.
MaxTime == 3
\* CacheManager.ttl_seconds of the modelled instance (ttl_minutes * 60 in the
\* code; scaled down so that expiry happens within MaxTime).
TtlSeconds == 2
\* The largest attempt budget given to _retry_with_backoff.
MaxAttempts == 3
\* The longest list of observations given to combine_sources.
MaxObs == 3
\* The number of current-weather requests served in one behaviour.
MaxRequests == 2

(***************************************************************************)
(* Cache keys: CacheManager._generate_key                                  *)
(***************************************************************************)
\* Python orders dict keys (strings) by code point; the parameter names the
\* program uses, in that order.
ParamNames == <<"days", "lat", "lon", "source", "type">>

StrRank(s) == CHOOSE i \in 1..Len(ParamNames) : ParamNames[i] = s

\* A parameter dict is the sequence of its <<key, value>> items in insertion
\* order (Python dicts keep insertion order).
ItemSet(params) == {params[i] : i \in 1..Len(params)}

RECURSIVE SortedItems(_)
SortedItems(items) ==
    IF items = {} THEN <<>>
    ELSE LET first == CHOOSE it \in items :
                          \A o \in items : StrRank(it[1]) <= StrRank(o[1])
         IN <<first>> \o SortedItems(items \ {first})

\* json.dumps(params, sort_keys=...): the serialisation lists the items in
\* key order when sort_keys is set, in insertion order otherwise.
json_dumps(params, sort_keys) ==
    IF sort_keys THEN SortedItems(ItemSet(params)) ELSE params

\* hashlib.md5(...).hexdigest(): a digest determined by the hashed string,
\* taken to be collision-free.
md5_hexdigest(s) == [md5 |-> s]

\* Variant: the parameters are serialised in insertion order.
_generate_key_unsorted(source, params) ==
    md5_hexdigest(<<source, ":", json_dumps(params, FALSE)>>)

_generate_key(source, params) ==
    LET params_str == json_dumps(params, TRUE)
        key_string == <<source, ":", params_str>>
    IN md5_hexdigest(key_string)

(***************************************************************************)
(* CacheManager: get, set, invalidate                                      *)
(***************************************************************************)
Restrict(f, keep) == [k \in keep |-> f[k]]

Put(f, k, v) == [x \in DOMAIN f \cup {k} |-> IF x = k THEN v ELSE f[x]]

\* diskcache.Cache.get(key): the stored value while its expire time lies in
\* the future, the default (None) otherwise.  A row of the durable store is
\* [value, expire_time].
dc_get(store, key, t) ==
    IF key \in DOMAIN store /\ store[key].expire_time > t
    THEN store[key].value
    ELSE PyNone

\* diskcache.Cache.set(key, value, expire=seconds)
dc_set(store, key, value, expire, t) ==
    Put(store, key, [value |-> value, expire_time |-> t + expire])

\* str.startswith(prefix) on a key.  Keys are md5 hex digests: 32 characters
\* out of 0-9a-f, so no key starts with a name that has any other character,
\* and every provider name of the model has one.
startswith(key, prefix) == FALSE

\* Variant: an entry is returned whatever its age.
get_at_no_expiry(source, params, t) ==
    LET key == _generate_key(source, params)
    IN [ret |-> IF key \in DOMAIN cache
                THEN (IF backend = "disk" THEN cache[key].value ELSE cache[key])
                ELSE PyNone,
        cache |-> cache, ts |-> _cache_timestamps]

\* Variant: a miss leaves a placeholder entry behind.
get_at_placeholder(source, params, t) ==
    LET key == _generate_key(source, params)
        hit == IF backend = "disk" THEN dc_get(cache, key, t) # PyNone
               ELSE /\ key \in DOMAIN cache
                    /\ key \in DOMAIN _cache_timestamps
                    /\ t - _cache_timestamps[key] < TtlSeconds
    IN IF hit
       THEN [ret |-> IF backend = "disk" THEN cache[key].value
                     ELSE cache[key],
             cache |-> cache, ts |-> _cache_timestamps]
       ELSE [ret |-> PyNone,
             cache |-> IF backend = "disk"
                       THEN dc_set(cache, key, PyStr("error"), TtlSeconds, t)
                       ELSE Put(cache, key, PyStr("error")),
             ts |-> IF backend = "disk" THEN _cache_timestamps
                    ELSE Put(_cache_timestamps, key, t)]

\* CacheManager.get on the given tier and stores, called when the clock
\* reads t: the value returned and the stores it leaves behind.
tier_get(tier, store, stamps, source, params, t) ==
    LET key == _generate_key(source, params)
        same == [ret |-> PyNone, cache |-> store, ts |-> stamps]
    IN IF tier = "disk"
       THEN [same EXCEPT !.ret = dc_get(store, key, t)]
       ELSE IF key \in DOMAIN store /\ key \in DOMAIN stamps
            THEN LET age == t - stamps[key]
                 IN IF age < TtlSeconds
                    THEN [same EXCEPT !.ret = store[key]]
                    ELSE [ret |-> PyNone,
                          cache |-> Restrict(store, DOMAIN store \ {key}),
                          ts |-> Restrict(stamps, DOMAIN stamps \ {key})]
            ELSE same

\* The call on the CacheManager of the process.
get_at(source, params, t) ==
    tier_get(backend, cache, _cache_timestamps, source, params, t)

get(source, params) == get_at(source, params, now)

\* Variant: a set on an existing entry replaces the value but keeps the
\* entry's old time stamp.
set_keeping_stamp(source, params, value) ==
    LET key == _generate_key(source, params)
        fresh == key \notin DOMAIN cache
    IN IF backend = "disk"
       THEN [ret |-> TRUE,
             cache |-> Put(cache, key,
                           [value |-> value,
                            expire_time |-> IF fresh THEN now + TtlSeconds
                                            ELSE cache[key].expire_time]),
             ts |-> _cache_timestamps]
       ELSE [ret |-> TRUE,
             cache |-> Put(cache, key, value),
             ts |-> IF fresh THEN Put(_cache_timestamps, key, now)
                    ELSE _cache_timestamps]

\* CacheManager.set on the given tier and stores, called when the clock
\* reads t.
tier_set(tier, store, stamps, source, params, value, t) ==
    LET key == _generate_key(source, params)
    IN IF tier = "disk"
       THEN [ret |-> TRUE,
             cache |-> dc_set(store, key, value, TtlSeconds, t),
             ts |-> stamps]
       ELSE [ret |-> TRUE,
             cache |-> Put(store, key, value),
             ts |-> Put(stamps, key, t)]

\* CacheManager.set
set(source, params, value) ==
    tier_set(backend, cache, _cache_timestamps, source, params, value, now)

\* CacheManager.invalidate(source) on the given tier and stores; source =
\* PyNone stands for no argument.
tier_invalidate(tier, store, stamps, source) ==
    IF tier = "disk"
    THEN [ret |-> Cardinality(DOMAIN store), cache |-> EmptyMap,
          ts |-> stamps]
    ELSE IF source = PyNone
         THEN [ret |-> Cardinality(DOMAIN store), cache |-> EmptyMap,
               ts |-> EmptyMap]
         ELSE LET keys_to_delete ==
                      {k \in DOMAIN store : startswith(k, source.s)}
              IN [ret |-> Cardinality(keys_to_delete),
                  cache |-> Restrict(store, DOMAIN store \ keys_to_delete),
                  ts |-> Restrict(stamps, DOMAIN stamps \ keys_to_delete)]

\* CacheManager.invalidate(source)
invalidate(source) ==
    tier_invalidate(backend, cache, _cache_timestamps, source)

(***************************************************************************)
(* The cache driven by arbitrary callers                                   *)
(***************************************************************************)
SourceNames == {"Open-Meteo", "OpenWeatherMap"}

\* The logical queries callers issue, each as the set of its items.
Queries == { {<<"lat", PyInt(6)>>, <<"type", PyStr("current")>>} }

\* Every order in which the items of a query can be inserted in the dict.
Orderings(items) ==
    {p \in [1..Cardinality(items) -> items] : ItemSet(p) = items}

ParamDicts == UNION {Orderings(q) : q \in Queries}

\* The values callers store: standardised observations.
CacheValues ==
    { PyDict("source" :> PyStr("Open-Meteo") @@ "temperature" :> PyInt(20)),
      PyDict("source" :> PyStr("Open-Meteo") @@ "temperature" :> PyInt(22)) }

NoCall == [op |-> "none"]

\* What a set for logical query q finds in place: nothing, an entry still
\* within its TTL, or an entry whose TTL has run out.
Overwrites(q) ==
    IF q \notin DOMAIN written \/ ~written[q].live THEN "nothing"
    ELSE IF now < written[q].at + TtlSeconds THEN "fresh"
    ELSE "expired"

CacheInit ==
    /\ backend \in {"disk", "memory"}
    /\ cache = EmptyMap
    /\ _cache_timestamps = EmptyMap
    /\ now = 0
    /\ call = NoCall
    /\ written = EmptyMap

\* Time passes between calls.
Tick ==
    /\ now < MaxTime
    /\ now' = now + 1
    /\ call' = NoCall
    /\ UNCHANGED <<backend, cache, _cache_timestamps, written>>
    /\ UNCHANGED exceptCache

CallGet ==
    \E source \in SourceNames, params \in ParamDicts :
        LET r == get(source, params)
        IN /\ cache' = r.cache
           /\ _cache_timestamps' = r.ts
           /\ call' = [op |-> "get", source |-> source, params |-> params,
                       ret |-> r.ret]
           /\ UNCHANGED <<backend, now, written>>
           /\ UNCHANGED exceptCache

CallSet ==
    \E source \in SourceNames, params \in ParamDicts, value \in CacheValues :
        LET r == set(source, params, value)
        IN /\ cache' = r.cache
           /\ _cache_timestamps' = r.ts
           /\ call' = [op |-> "set", source |-> source, params |-> params,
                       value |-> value, ret |-> r.ret,
                       over |-> Overwrites(<<source, ItemSet(params)>>)]
           /\ written' = Put(written, <<source, ItemSet(params)>>,
                             [live |-> TRUE, value |-> value, at |-> now,
                              params |-> params])
           /\ UNCHANGED <<backend, now>>
           /\ UNCHANGED exceptCache

CallInvalidate ==
    \E source \in {PyNone} \cup {PyStr(n) : n \in SourceNames} :
        LET r == invalidate(source)
            held(q) == /\ written[q].live
                       /\ _generate_key(q[1], written[q].params)
                              \in DOMAIN cache
            kept(q) == /\ written[q].live
                       /\ _generate_key(q[1], written[q].params)
                              \in DOMAIN r.cache
        IN /\ cache' = r.cache
           /\ _cache_timestamps' = r.ts
           /\ call' = [op |-> "invalidate", source |-> source, ret |-> r.ret,
                       held |-> {q \in DOMAIN written : held(q)}]
           /\ written' = [q \in DOMAIN written |->
                              IF kept(q) THEN written[q]
                              ELSE [live |-> FALSE, value |-> PyNone,
                                    at |-> written[q].at, params |-> <<>>]]
           /\ UNCHANGED <<backend, now>>
           /\ UNCHANGED exceptCache

\* The cache as it is when nobody uses it.
CacheUnused ==
    /\ backend = "memory"
    /\ cache = EmptyMap
    /\ _cache_timestamps = EmptyMap
    /\ now = 0
    /\ call = NoCall
    /\ written = EmptyMap

(***************************************************************************)
(* BaseWeatherSource._retry_with_backoff                                   *)
(***************************************************************************)
RECURSIVE Pow(_, _)
Pow(b, e) == IF e = 0 THEN 1 ELSE b * Pow(b, e - 1)

\* The exceptions func may raise (subclasses of Exception) and the results
\* it may return.
Exceptions == {"Timeout", "HTTPError", "ConnectionError"}
FuncResults == {"r1", "r2"}
BackoffFactors == {2, 3}

Running == [kind |-> "running"]

\* Variant: the helper also sleeps after the last failed attempt.
will_retry_always(a) == TRUE

\* `if attempt < max_attempts - 1`
will_retry(a) == a < max_attempts - 1

\* Variant: the wait grows linearly with the attempt number.
wait_time_linear(a) == retry_backoff_factor * (a + 1)

\* `wait_time = self.retry_backoff_factor ** attempt`
wait_time(a) == Pow(retry_backoff_factor, a)

\* Entry of _retry_with_backoff: max_attempts is the argument, or
\* self.max_retries when the argument is None.
RetryInit ==
    /\ max_attempts \in 0..MaxAttempts
    /\ retry_backoff_factor \in BackoffFactors
    /\ attempt = 0
    /\ last_exception = PyNone
    /\ slept = <<>>
    /\ raised = <<>>
    /\ outcome = Running

RetryUnused ==
    /\ max_attempts = 0
    /\ retry_backoff_factor = 2
    /\ attempt = 0
    /\ last_exception = PyNone
    /\ slept = <<>>
    /\ raised = <<>>
    /\ outcome = [kind |-> "unused"]

\* One pass through the loop body in which func returns.
AttemptReturns ==
    /\ outcome = Running
    /\ attempt < max_attempts
    /\ \E r \in FuncResults :
           outcome' = [kind |-> "returned", value |-> r, func_value |-> r,
                       func_calls |-> Len(raised) + 1]
    /\ UNCHANGED <<max_attempts, retry_backoff_factor, attempt,
                   last_exception, slept, raised>>
    /\ UNCHANGED exceptRetry

\* One pass through the loop body in which func raises.
AttemptRaises ==
    /\ outcome = Running
    /\ attempt < max_attempts
    /\ \E e \in Exceptions :
           /\ last_exception' = PyStr(e)
           /\ raised' = Append(raised, PyStr(e))
    /\ slept' = IF will_retry(attempt)
                THEN Append(slept, wait_time(attempt))
                ELSE slept
    /\ attempt' = attempt + 1
    /\ UNCHANGED <<max_attempts, retry_backoff_factor, outcome>>
    /\ UNCHANGED exceptRetry

\* `raise last_exception` after the loop; raising None is a TypeError.
RaiseLast ==
    /\ outcome = Running
    /\ attempt >= max_attempts
    /\ outcome' = [kind |-> "raised",
                   exc |-> IF last_exception = PyNone THEN PyStr("TypeError")
                           ELSE last_exception,
                   func_calls |-> Len(raised)]
    /\ UNCHANGED <<max_attempts, retry_backoff_factor, attempt,
                   last_exception, slept, raised>>
    /\ UNCHANGED exceptRetry

RetryNext == AttemptReturns \/ AttemptRaises \/ RaiseLast

CacheNext == Tick \/ CallGet \/ CallSet \/ CallInvalidate


(***************************************************************************)
(* Numbers: Python ints and floats as exact rationals n/d, d > 0, reduced  *)
(***************************************************************************)
Abs(x) == IF x < 0 THEN -x ELSE x

RECURSIVE Gcd(_, _)
Gcd(a, b) == IF b = 0 THEN a ELSE Gcd(b, a % b)

Rat(n, d) ==
    LET g == Gcd(Abs(n), Abs(d))
        sgn == IF d < 0 THEN -1 ELSE 1
    IN PyNum(sgn * (n \div g), sgn * (d \div g))

num_add(a, b) == Rat(a.n * b.d + b.n * a.d, a.d * b.d)
num_div(a, b) == Rat(a.n * b.d, a.d * b.n)
num_lt(a, b) == a.n * b.d < b.n * a.d

(***************************************************************************)
(* DataProcessor.combine_sources                                           *)
(***************************************************************************)
\* dict.get(key, default) on a dict given as a function from its keys
dict_get(d, k, default) == IF k \in DOMAIN d THEN d[k] ELSE default

Returned(v) == [ok |-> TRUE, value |-> v]
Raised(e) == [ok |-> FALSE, exc |-> e]

numeric_fields ==
    <<"temperature", "humidity", "precipitation", "wind_speed", "pressure">>

\* datetime.now().isoformat()
now_isoformat == [t |-> "isotime", at |-> now]

\* Variant: a value counts only when it is truthy, which drops a reported 0.
values_of_truthy(dl, field) ==
    LET v(i) == dict_get(dl[i], field, PyNone)
        F[i \in 0..Len(dl)] ==
            IF i = 0 THEN <<>>
            ELSE IF v(i) # PyNone /\ v(i) # PyInt(0)
                 THEN Append(F[i - 1], v(i)) ELSE F[i - 1]
    IN F[Len(dl)]

\* `[d.get(field) for d in data_list if d.get(field) is not None]`
values_of(dl, field) ==
    LET v(i) == dict_get(dl[i], field, PyNone)
        F[i \in 0..Len(dl)] ==
            IF i = 0 THEN <<>>
            ELSE IF v(i) # PyNone THEN Append(F[i - 1], v(i)) ELSE F[i - 1]
    IN F[Len(dl)]

\* sum(values): 0 + values[0] + values[1] + ...
py_sum(values) ==
    LET F[i \in 0..Len(values)] ==
            IF i = 0 THEN PyInt(0) ELSE num_add(F[i - 1], values[i])
    IN F[Len(values)]

\* min(values) and max(values): the first smallest / largest element
py_min(values) ==
    LET F[i \in 1..Len(values)] ==
            IF i = 1 THEN values[1]
            ELSE IF num_lt(values[i], F[i - 1]) THEN values[i] ELSE F[i - 1]
    IN F[Len(values)]

py_max(values) ==
    LET F[i \in 1..Len(values)] ==
            IF i = 1 THEN values[1]
            ELSE IF num_lt(F[i - 1], values[i]) THEN values[i] ELSE F[i - 1]
    IN F[Len(values)]

\* Variant: the headline is the value of the most recent (last) source.
headline_last(values) == values[Len(values)]

\* `combined[field] = combined[f"{field}_mean"]`, the mean being
\* `sum(values) / len(values)`
headline(values) == num_div(py_sum(values), PyInt(Len(values)))

\* The keys the two loops over numeric_fields add for one field.
field_stats(dl, field) ==
    LET values == values_of(dl, field)
    IN IF values = <<>> THEN EmptyMap
       ELSE (field \o "_mean") :> num_div(py_sum(values), PyInt(Len(values)))
            @@ (field \o "_min") :> py_min(values)
            @@ (field \o "_max") :> py_max(values)
            @@ (field \o "_count") :> PyInt(Len(values))
            @@ field :> headline(values)

\* Variant: no guard for the empty list, so data_list[0] raises IndexError.
combine_sources_unguarded(dl) ==
    IF dl = <<>> THEN Raised("IndexError")
    ELSE Returned(PyDict("sources" :> PyList(<<>>)))

\* DataProcessor.combine_sources: the dict returned, or the exception raised
\* (sum, min and max raise TypeError on a value that is not a number).
combine_sources(dl) ==
    IF dl = <<>> THEN Returned(PyDict(EmptyMap))
    ELSE IF \E i \in 1..Len(numeric_fields) :
                \E j \in 1..Len(values_of(dl, numeric_fields[i])) :
                    values_of(dl, numeric_fields[i])[j].t # "num"
         THEN Raised("TypeError")
         ELSE LET head ==
                      "sources" :> PyList([i \in 1..Len(dl) |->
                                      dict_get(dl[i], "source", PyNone)])
                      @@ "timestamp" :> now_isoformat
                      @@ "location" :> dict_get(dl[1], "location",
                                                PyDict(EmptyMap))
                  F[i \in 0..Len(numeric_fields)] ==
                      IF i = 0 THEN head
                      ELSE field_stats(dl, numeric_fields[i]) @@ F[i - 1]
              IN Returned(PyDict(F[Len(numeric_fields)]))

\* The observations combine_sources is applied to.
Temperatures == {PyInt(0), PyInt(20), PyInt(21), PyInt(-3)}

ObsUniverse ==
    { "source" :> PyStr("S1") @@ "humidity" :> PyNone @@ f
        : f \in {EmptyMap, "temperature" :> PyNone}
                \cup {"temperature" :> v : v \in Temperatures} }
    \cup
    { "source" :> PyStr("S2") @@ "humidity" :> PyInt(60)
      @@ "precipitation" :> PyInt(0) @@ "wind_speed" :> PyInt(10)
      @@ "pressure" :> PyInt(1013)
      @@ "location" :> PyDict("lat" :> PyInt(6)) @@ f
        : f \in {EmptyMap, "temperature" :> PyNone}
                \cup {"temperature" :> v : v \in Temperatures} }
    \cup { "temperature" :> PyInt(24) @@ "humidity" :> PyInt(64) }

Pending == [ok |-> FALSE, exc |-> "pending"]

CombineInit ==
    /\ data_list \in UNION {[1..n -> ObsUniverse] : n \in 0..MaxObs}
    /\ combined = Pending

CombineUnused ==
    /\ data_list = <<>>
    /\ combined = [ok |-> FALSE, exc |-> "unused"]

\* A call of combine_sources(data_list).
Combine ==
    /\ combined = Pending
    /\ combined' = combine_sources(data_list)
    /\ UNCHANGED data_list
    /\ UNCHANGED exceptCombine

CombineNext == Combine

(***************************************************************************)
(* validators.py                                                           *)
(***************************************************************************)
\* isinstance(v, (int, float))
is_number(v) == v.t = "num"

\* bool(v)
truthy(v) ==
    CASE v.t = "none" -> FALSE
      [] v.t = "num" -> v.n # 0
      [] v.t = "str" -> v.s # ""
      [] v.t = "dict" -> DOMAIN v.v # {}
      [] v.t = "list" -> v.v # <<>>
      [] OTHER -> TRUE

Valid == [valid |-> TRUE, error |-> "-"]
Invalid(e) == [valid |-> FALSE, error |-> e]

\* v < lo or v > hi
outside(v, lo, hi) == num_lt(v, PyInt(lo)) \/ num_lt(PyInt(hi), v)

validate_temperature(temperature, location) ==
    IF temperature = PyNone THEN Invalid("Temperatura es None")
    ELSE IF ~is_number(temperature)
         THEN Invalid("Temperatura debe ser numerica")
         ELSE IF outside(temperature, -50, 60)
              THEN Invalid("Temperatura fuera de rango valido")
              ELSE Valid

validate_humidity(humidity) ==
    IF humidity = PyNone THEN Invalid("Humedad es None")
    ELSE IF ~is_number(humidity) THEN Invalid("Humedad debe ser numerica")
         ELSE IF outside(humidity, 0, 100)
              THEN Invalid("Humedad fuera de rango valido")
              ELSE Valid

\* validate_pressure with the default unit, hPa
validate_pressure(pressure) ==
    IF pressure = PyNone THEN Invalid("Presion es None")
    ELSE IF ~is_number(pressure) THEN Invalid("Presion debe ser numerica")
         ELSE IF outside(pressure, 800, 1100)
              THEN Invalid("Presion fuera de rango valido")
              ELSE Valid

\* validate_timestamp: an ISO string made by isoformat() parses; any other
\* string of the model does not; other types are not supported.
validate_timestamp(timestamp) ==
    IF timestamp = PyNone THEN Invalid("Timestamp es None")
    ELSE IF timestamp.t = "isotime" THEN Valid
    ELSE IF timestamp.t = "str" THEN Invalid("Error al parsear timestamp")
    ELSE IF timestamp.t = "num" THEN Valid
    ELSE Invalid("Formato de timestamp no soportado")

Anomaly(field, value, error, severity) ==
    [field |-> field, value |-> value, error |-> error, severity |-> severity]

\* `"None" in str(error)`: of the messages of validate_temperature only
\* "Temperatura es None" contains it.
mentions_None(error) == error = "Temperatura es None"

\* detect_anomalies: the list returned, or the exception raised (the
\* comparison `temp < 0` raises TypeError on a value that is not a number).
detect_anomalies(data, location) ==
    LET has(k) == k \in DOMAIN data
        a1 == IF has("temperature")
                 /\ ~validate_temperature(data["temperature"], location).valid
              THEN <<Anomaly("temperature", data["temperature"],
                       validate_temperature(data["temperature"],
                                            location).error,
                       IF mentions_None(validate_temperature(
                              data["temperature"], location).error)
                       THEN "error" ELSE "warning")>>
              ELSE <<>>
        a2 == IF has("humidity") /\ ~validate_humidity(data["humidity"]).valid
              THEN <<Anomaly("humidity", data["humidity"],
                       validate_humidity(data["humidity"]).error, "error")>>
              ELSE <<>>
        a3 == IF has("pressure") /\ ~validate_pressure(data["pressure"]).valid
              THEN <<Anomaly("pressure", data["pressure"],
                       validate_pressure(data["pressure"]).error, "error")>>
              ELSE <<>>
        a4 == IF has("timestamp")
                 /\ ~validate_timestamp(data["timestamp"]).valid
              THEN <<Anomaly("timestamp", data["timestamp"],
                       validate_timestamp(data["timestamp"]).error, "error")>>
              ELSE <<>>
        missing(f) == IF ~has(f) \/ data[f] = PyNone
                      THEN <<Anomaly(f, PyNone, "Campo critico faltante",
                                     "error")>>
                      ELSE <<>>
        a5 == missing("temperature") \o missing("humidity")
        checked == has("temperature") /\ data["temperature"] # PyNone
    IN IF checked /\ ~is_number(data["temperature"])
       THEN Raised("TypeError")
       ELSE Returned(a1 \o a2 \o a3 \o a4 \o a5 \o
                IF checked /\ outside(data["temperature"], 0, 30)
                THEN <<Anomaly("temperature", data["temperature"],
                               "Temperatura extrema", "warning")>>
                ELSE <<>>)

(***************************************************************************)
(* DataProcessor.standardize_data, _convert_units, validate_and_clean      *)
(***************************************************************************)
field_mapping ==
    << <<"temperature", <<"temperature", "temp", "temperature_2m">> >>,
       <<"humidity",
         <<"humidity", "relative_humidity", "relative_humidity_2m">> >>,
       <<"precipitation", <<"precipitation", "precip", "precipitation_sum">> >>,
       <<"wind_speed", <<"wind_speed", "windspeed", "wind_speed_10m">> >>,
       <<"wind_direction",
         <<"wind_direction", "wind_deg", "wind_angle",
           "wind_direction_10m">> >>,
       <<"pressure", <<"pressure", "surface_pressure", "pressure_msl">> >> >>

\* Variant: the first alias that is in data wins, None or not.
resolve_first_present(data, possible_fields) ==
    LET found == {i \in 1..Len(possible_fields) :
                     possible_fields[i] \in DOMAIN data}
    IN IF found = {} THEN PyNone
       ELSE data[possible_fields[CHOOSE i \in found :
                                     \A j \in found : i <= j]]

\* The inner loop over possible_fields: the value of the first alias that is
\* in data with a value other than None, or None when there is none.
resolve(data, possible_fields) ==
    LET hit(i) == possible_fields[i] \in DOMAIN data
                  /\ data[possible_fields[i]] # PyNone
        found == {i \in 1..Len(possible_fields) : hit(i)}
    IN IF found = {} THEN PyNone
       ELSE data[possible_fields[CHOOSE i \in found :
                                     \A j \in found : i <= j]]

\* The dict standardize_data builds before it converts units.
mapped_fields(data, source) ==
    LET head == "source" :> PyStr(source)
                @@ "timestamp" :> dict_get(data, "timestamp", now_isoformat)
                @@ "location" :> dict_get(data, "location", PyDict(EmptyMap))
        F[i \in 0..Len(field_mapping)] ==
            IF i = 0 THEN head
            ELSE IF resolve(data, field_mapping[i][2]) = PyNone THEN F[i - 1]
                 ELSE field_mapping[i][1] :> resolve(data, field_mapping[i][2])
                      @@ F[i - 1]
    IN F[Len(field_mapping)]

Kelvin == Rat(27315, 100)
MsToKmh == Rat(36, 10)

num_sub(a, b) == Rat(a.n * b.d - b.n * a.d, a.d * b.d)
num_mul(a, b) == Rat(a.n * b.n, a.d * b.d)

\* Variant: the Kelvin check looks at the magnitude for every provider.
_convert_units_kelvin_any(data, source) ==
    LET owm == source = "OpenWeatherMap"
        has_t == "temperature" \in DOMAIN data
        has_w == "wind_speed" \in DOMAIN data /\ truthy(data["wind_speed"])
                 /\ owm
        t == data["temperature"]
        w == data["wind_speed"]
    IN IF has_t /\ truthy(t) /\ ~is_number(t) THEN Raised("TypeError")
       ELSE IF has_w /\ ~is_number(w) THEN Raised("TypeError")
       ELSE Returned(
              [k \in DOMAIN data |->
                  IF k = "temperature" /\ has_t /\ truthy(t)
                     /\ num_lt(PyInt(100), t)
                  THEN num_sub(t, Kelvin)
                  ELSE IF k = "wind_speed" /\ has_w THEN num_mul(w, MsToKmh)
                  ELSE data[k]])

\* Variant: the wind speed of every provider is taken to be in m/s.
_convert_units_wind_any(data, source) ==
    LET owm == source = "OpenWeatherMap"
        has_t == owm /\ "temperature" \in DOMAIN data
        has_w == "wind_speed" \in DOMAIN data /\ truthy(data["wind_speed"])
        t == data["temperature"]
        w == data["wind_speed"]
    IN IF has_t /\ truthy(t) /\ ~is_number(t) THEN Raised("TypeError")
       ELSE IF has_w /\ ~is_number(w) THEN Raised("TypeError")
       ELSE Returned(
              [k \in DOMAIN data |->
                  IF k = "temperature" /\ has_t /\ truthy(t)
                     /\ num_lt(PyInt(100), t)
                  THEN num_sub(t, Kelvin)
                  ELSE IF k = "wind_speed" /\ has_w THEN num_mul(w, MsToKmh)
                  ELSE data[k]])

\* _convert_units: the converted dict, or the exception raised (`temp > 100`
\* and `wind_speed * 3.6` raise TypeError on a string).
_convert_units(data, source) ==
    LET owm == source = "OpenWeatherMap"
        has_t == owm /\ "temperature" \in DOMAIN data
        has_w == "wind_speed" \in DOMAIN data /\ truthy(data["wind_speed"])
                 /\ owm
        t == data["temperature"]
        w == data["wind_speed"]
    IN IF has_t /\ truthy(t) /\ ~is_number(t) THEN Raised("TypeError")
       ELSE IF has_w /\ ~is_number(w) THEN Raised("TypeError")
       ELSE Returned(
              [k \in DOMAIN data |->
                  IF k = "temperature" /\ has_t /\ truthy(t)
                     /\ num_lt(PyInt(100), t)
                  THEN num_sub(t, Kelvin)
                  ELSE IF k = "wind_speed" /\ has_w THEN num_mul(w, MsToKmh)
                  ELSE data[k]])

\* DataProcessor.standardize_data: the record returned, or the exception
\* raised.
standardize_data(data, source) ==
    LET converted == _convert_units(mapped_fields(data, source), source)
    IN IF ~converted.ok THEN converted
       ELSE LET anomalies == detect_anomalies(converted.value, "Medellin")
            IN IF ~anomalies.ok THEN anomalies
               ELSE IF anomalies.value = <<>>
                    THEN Returned(PyDict(converted.value))
                    ELSE Returned(PyDict("anomalies" :> PyList(anomalies.value)
                                         @@ converted.value))

\* Variant: every None field is given the default 0, not only precipitation.
validate_and_clean_all_defaults(data, location) ==
    LET anomalies == detect_anomalies(data, location)
    IN IF ~anomalies.ok THEN anomalies
       ELSE LET critical_errors ==
                    SelectSeq(anomalies.value,
                              LAMBDA a : a.severity = "error")
                marked == IF critical_errors = <<>> THEN data
                          ELSE "validation_errors" :> PyList(critical_errors)
                               @@ data
            IN Returned(PyDict(
                  [k \in DOMAIN marked |->
                      IF marked[k] = PyNone THEN PyInt(0) ELSE marked[k]]))

\* DataProcessor.validate_and_clean: the cleaned copy returned, or the
\* exception raised by detect_anomalies.
validate_and_clean(data, location) ==
    LET anomalies == detect_anomalies(data, location)
    IN IF ~anomalies.ok THEN anomalies
       ELSE LET critical_errors ==
                    SelectSeq(anomalies.value,
                              LAMBDA a : a.severity = "error")
                marked == IF critical_errors = <<>> THEN data
                          ELSE "validation_errors" :> PyList(critical_errors)
                               @@ data
            IN Returned(PyDict(
                  [k \in DOMAIN marked |->
                      IF marked[k] = PyNone /\ k = "precipitation"
                      THEN PyInt(0) ELSE marked[k]]))

(***************************************************************************)
(* standardize_data and detect_anomalies applied to provider payloads      *)
(***************************************************************************)
\* The providers, by name, in the order they are registered.
ProviderNames == <<"Open-Meteo", "OpenWeatherMap", "SIATA">>

\* A dict with key k absent, or present with one of vals.
Opt(k, vals) == {EmptyMap} \cup {k :> v : v \in vals}

\* Readings inside, on the edge of and outside the validation ranges, missing,
\* None or text.
RangePayloads ==
    { a @@ b @@ c @@ d :
        a \in Opt("temperature",
                  {PyNone, PyStr("n/a")}
                  \cup {PyInt(n) : n \in {-60, -50, -3, 0, 20, 30, 31, 60, 61,
                                          150}}),
        b \in Opt("humidity", {PyNone, PyInt(60), PyInt(150), PyStr("n/a")}),
        c \in Opt("pressure", {PyInt(1013), PyInt(500)}),
        d \in Opt("timestamp", {PyStr("ayer"), now_isoformat}) }

\* Readings under the names the providers use, some of them None.
AliasPayloads ==
    { a @@ b @@ c @@ d @@ e :
        a \in Opt("temperature", {PyNone, PyInt(20)}),
        b \in Opt("temp", {PyNone, PyInt(25)}),
        c \in Opt("temperature_2m", {PyNone, PyInt(26)}),
        d \in Opt("humidity", {PyInt(60)}),
        e \in Opt("relative_humidity", {PyNone, PyInt(61)}) }

\* Readings around the Kelvin threshold, and wind speeds.
UnitPayloads ==
    { a @@ b @@ "humidity" :> PyInt(60) :
        a \in Opt("temperature",
                  {PyNone, PyInt(0), PyInt(99), PyInt(100), PyInt(101),
                   Rat(30015, 100)}),
        b \in Opt("wind_speed",
                  {PyNone, PyInt(0), PyInt(10), Rat(5, 2), PyStr("fast")}) }

RawPayloads == RangePayloads \cup AliasPayloads \cup UnitPayloads

NotApplied == [ok |-> FALSE, exc |-> "unused"]

NormalizeInit ==
    /\ raw_data \in RawPayloads
    /\ provider \in {ProviderNames[i] : i \in 1..Len(ProviderNames)}
    /\ mapped = Pending
    /\ standardized = Pending
    /\ detected = Pending

NormalizeUnused ==
    /\ raw_data = EmptyMap
    /\ provider = "none"
    /\ mapped = NotApplied
    /\ standardized = NotApplied
    /\ detected = NotApplied

\* A call of standardize_data(raw_data, provider).
Standardize ==
    /\ standardized = Pending
    /\ mapped' = Returned(mapped_fields(raw_data, provider))
    /\ standardized' = standardize_data(raw_data, provider)
    /\ UNCHANGED <<raw_data, provider, detected>>
    /\ UNCHANGED exceptNormalize

\* A call of detect_anomalies(raw_data, "Medellín").
DetectAnomalies ==
    /\ detected = Pending
    /\ detected' = detect_anomalies(raw_data, "Medellin")
    /\ UNCHANGED <<raw_data, provider, mapped, standardized>>
    /\ UNCHANGED exceptNormalize

NormalizeNext == Standardize \/ DetectAnomalies

(***************************************************************************)
(* Providers: BaseWeatherSource._make_request, is_available and the        *)
(* get_forecast of OpenMeteoSource and OpenWeatherSource                   *)
(***************************************************************************)
\* The location asked for.
Latitude == PyInt(6)
Longitude == PyInt(-75)

\* The largest `days` a forecast is asked for.
MaxDays == 18

\* What session.get / session.post ends with: a response (its status and
\* whether its body is JSON) or an exception.
Exchanges ==
    {[kind |-> "response", status_code |-> c, json |-> j] :
        c \in {200, 304, 404, 501}, j \in BOOLEAN}
    \cup {[kind |-> "raises", exc |-> e] :
            e \in {"Timeout", "ConnectionError", "RetryError",
                   "RuntimeError"}}

NoRequestSent == [method |-> "none"]

\* Variant: the key is written into the caller's own dict.
attach_key_in_place(key, params) ==
    IF truthy(key) /\ params # PyNone
    THEN LET with_key == IF "appid" \notin DOMAIN params.v
                            /\ "key" \notin DOMAIN params.v
                         THEN PyDict("key" :> key @@ params.v)
                         ELSE params
         IN [sent |-> with_key, callers |-> with_key]
    ELSE [sent |-> params, callers |-> params]

\* `if self.api_key and params is not None`: the params that are sent and
\* the caller's dict afterwards (the key goes into a copy).
attach_key(key, params) ==
    IF truthy(key) /\ params # PyNone
    THEN [sent |-> IF "appid" \notin DOMAIN params.v
                      /\ "key" \notin DOMAIN params.v
                   THEN PyDict("key" :> key @@ params.v)
                   ELSE params,
          callers |-> params]
    ELSE [sent |-> params, callers |-> params]

\* response.raise_for_status()
raise_for_status(status_code) == status_code >= 400 /\ status_code < 600

\* BaseWeatherSource._make_request: the request handed to the session, the
\* response returned or the exception raised, and the caller's params dict
\* after the call.
_make_request(key, endpoint, params, method, exchange) ==
    LET attached == attach_key(key, params)
        handed == [method |-> method, endpoint |-> endpoint,
                   params |-> attached.sent]
    IN IF method \notin {"GET", "POST"}
       THEN [sent |-> NoRequestSent, result |-> Raised("ValueError"),
             callers |-> attached.callers]
       ELSE [sent |-> handed,
             result |-> IF exchange.kind = "raises"
                        THEN Raised(exchange.exc)
                        ELSE IF raise_for_status(exchange.status_code)
                             THEN Raised("HTTPError")
                             ELSE Returned(exchange),
             callers |-> attached.callers]

\* Variant: no try around the probe.
is_available_unguarded(key, exchange) ==
    LET probe == _make_request(key, "", PyDict(EmptyMap), "GET", exchange)
    IN [sent |-> probe.sent,
        result |-> IF probe.result.ok
                   THEN Returned(probe.result.value.status_code < 500)
                   ELSE probe.result]

\* BaseWeatherSource.is_available
is_available(key, exchange) ==
    LET probe == _make_request(key, "", PyDict(EmptyMap), "GET", exchange)
    IN [sent |-> probe.sent,
        result |-> IF probe.result.ok
                   THEN Returned(probe.result.value.status_code < 500)
                   ELSE Returned(FALSE)]

py_min2(a, b) == IF a < b THEN a ELSE b

\* The rest of get_forecast once the request is made: response.json() and
\* the dict built from it; every exception is logged and raised again.
forecast_result(name, days, made) ==
    IF ~made.result.ok THEN made.result
    ELSE IF ~made.result.value.json THEN Raised("JSONDecodeError")
    ELSE Returned(PyDict("source" :> PyStr(name)
                         @@ "timestamp" :> now_isoformat
                         @@ "forecast_days" :> PyInt(days)))

\* Variant: days is passed on as asked.
openmeteo_get_forecast_unclamped(key, days, exchange) ==
    LET made == _make_request(key, "forecast",
                    PyDict("latitude" :> Latitude @@ "longitude" :> Longitude
                           @@ "timezone" :> PyStr("America/Bogota")
                           @@ "forecast_days" :> PyInt(days)
                           @@ "hourly" :> PyStr("temperature_2m")),
                    "GET", exchange)
    IN [sent |-> made.sent,
        result |-> forecast_result("Open-Meteo", days, made)]

\* OpenMeteoSource.get_forecast(latitude, longitude, days)
openmeteo_get_forecast(key, days, exchange) ==
    LET clamped == py_min2(days, 16)
        made == _make_request(key, "forecast",
                    PyDict("latitude" :> Latitude @@ "longitude" :> Longitude
                           @@ "timezone" :> PyStr("America/Bogota")
                           @@ "forecast_days" :> PyInt(clamped)
                           @@ "hourly" :> PyStr("temperature_2m")),
                    "GET", exchange)
    IN [sent |-> made.sent,
        result |-> forecast_result("Open-Meteo", clamped, made)]

\* OpenWeatherSource.get_forecast(latitude, longitude, days)
openweather_get_forecast(key, days, exchange) ==
    LET clamped == py_min2(days, 5)
        made == _make_request(key, "forecast",
                    PyDict("lat" :> Latitude @@ "lon" :> Longitude
                           @@ "appid" :> key
                           @@ "units" :> PyStr("metric")
                           @@ "cnt" :> PyInt(clamped * 8)),
                    "GET", exchange)
    IN [sent |-> made.sent,
        result |-> forecast_result("OpenWeatherMap", clamped, made)]

\* The api_key a provider is built with: none, or the key of the settings.
ApiKeys == {PyNone, PyStr("secret")}

\* The params dicts the providers hand to _make_request.
CallerParams ==
    { PyDict(EmptyMap),
      PyDict("latitude" :> Latitude @@ "longitude" :> Longitude),
      PyDict("lat" :> Latitude @@ "appid" :> PyStr("secret")),
      PyDict("lat" :> Latitude @@ "key" :> PyStr("own")),
      PyDict("appid" :> PyStr("secret") @@ "key" :> PyStr("own")) }

NoInvocation == [op |-> "none"]

SourceInit ==
    /\ api_key = PyNone
    /\ invocation = NoInvocation
    /\ outbound = NoRequestSent
    /\ answer = Pending

SourceUnused ==
    /\ api_key = PyNone
    /\ invocation = NoInvocation
    /\ outbound = NoRequestSent
    /\ answer = NotApplied

\* A provider method makes a request: self._make_request(endpoint, params).
CallMakeRequest ==
    \E key \in ApiKeys, params \in CallerParams, exchange \in Exchanges :
        LET made == _make_request(key, "forecast", params, "GET", exchange)
        IN /\ api_key' = key
           /\ invocation' = [op |-> "_make_request", params |-> params,
                             params_after |-> made.callers,
                             exchange |-> exchange]
           /\ outbound' = made.sent
           /\ answer' = made.result
           /\ UNCHANGED exceptSource

\* source.is_available()
CallIsAvailable ==
    \E key \in ApiKeys, exchange \in Exchanges :
        LET probed == is_available(key, exchange)
        IN /\ api_key' = key
           /\ invocation' = [op |-> "is_available", exchange |-> exchange]
           /\ outbound' = probed.sent
           /\ answer' = probed.result
           /\ UNCHANGED exceptSource

\* source.get_forecast(latitude, longitude, days=days) on Open-Meteo (no
\* key) or OpenWeatherMap (keyed).
CallGetForecast ==
    \E name \in {"Open-Meteo", "OpenWeatherMap"}, days \in -1..MaxDays,
       exchange \in Exchanges :
        LET key == IF name = "Open-Meteo" THEN PyNone ELSE PyStr("secret")
            got == IF name = "Open-Meteo"
                   THEN openmeteo_get_forecast(key, days, exchange)
                   ELSE openweather_get_forecast(key, days, exchange)
        IN /\ api_key' = key
           /\ invocation' = [op |-> "get_forecast", name |-> name,
                             days |-> days, exchange |-> exchange]
           /\ outbound' = got.sent
           /\ answer' = got.result
           /\ UNCHANGED exceptSource

SourceNext == CallMakeRequest \/ CallIsAvailable \/ CallGetForecast

(***************************************************************************)
(* Current weather from every provider:                                    *)
(* Dashboard.get_data_for_location, get_current_weather (api), main (cli)  *)
(***************************************************************************)
\* The provider lists get_sources / create_sources can build.
SourceLists == {SubSeq(ProviderNames, 1, n) : n \in 0..Len(ProviderNames)}

\* What a provider's get_current_weather can return: a complete reading, a
\* reading whose humidity is text, a reading whose temperature is text.
Payloads ==
    { "temperature" :> PyInt(20) @@ "humidity" :> PyInt(60),
      "temperature" :> PyInt(21) @@ "humidity" :> PyStr("n/a"),
      "temp" :> PyStr("n/a") @@ "humidity" :> PyInt(60) }

\* get_current_weather: a payload, or an exception of the HTTP layer.
FetchOutcomes ==
    {Returned(p) : p \in Payloads} \cup {Raised("RequestException")}

\* The cache_key dict of get_data_for_location, in insertion order.
cache_key(name) ==
    << <<"source", PyStr(name)>>, <<"lat", Latitude>>, <<"lon", Longitude>>,
       <<"type", PyStr("current")>> >>

\* `sources_to_use`: every source, or those named in source_names.
sources_to_use(srcs, source_names) ==
    IF source_names = PyNone \/ ~truthy(source_names) THEN srcs
    ELSE SelectSeq(srcs, LAMBDA n :
             \E j \in 1..Len(source_names.v) : source_names.v[j] = PyStr(n))

\* Variant: only exceptions of the HTTP layer are caught.
caught_http_only(e) == e = "RequestException"

\* `except Exception as e` around one provider: every exception a provider
\* or standardize_data raises is an Exception.
caught(e) == TRUE

NoRequest == [source_names |-> PyNone, use_cache |-> FALSE]
NoResponse == [kind |-> "none"]

AcquireInit ==
    /\ caller \in {"api", "cli", "lib"}
    /\ sources \in SourceLists
    /\ request = NoRequest
    /\ phase = "idle"
    /\ pos = 1
    /\ results = <<>>
    /\ errors = <<>>
    /\ attempts = <<>>
    /\ response = NoResponse
    /\ requests = 0

AcquireUnused ==
    /\ caller = "none"
    /\ sources = <<>>
    /\ request = NoRequest
    /\ phase = "idle"
    /\ pos = 1
    /\ results = <<>>
    /\ errors = <<>>
    /\ attempts = <<>>
    /\ response = NoResponse
    /\ requests = 0

\* The arguments each caller passes to the acquisition.
Requests ==
    IF caller = "api" THEN {NoRequest}
    ELSE {[source_names |-> sn, use_cache |-> uc] :
            sn \in {PyNone, PyList(<<PyStr("OpenWeatherMap")>>)},
            uc \in IF caller = "cli" THEN {TRUE} ELSE BOOLEAN}

\* A request arrives.  get_current_weather answers 503 and main exits when
\* no source is registered; a new cli process starts with an empty memory
\* cache.
StartRequest ==
    /\ phase \in {"idle", "done"}
    /\ requests < MaxRequests
    /\ requests' = requests + 1
    /\ \E r \in Requests : request' = r
    /\ pos' = 1
    /\ results' = <<>>
    /\ errors' = <<>>
    /\ attempts' = <<>>
    /\ IF sources = <<>> /\ caller \in {"api", "cli"}
       THEN /\ phase' = "done"
            /\ response' = IF caller = "api"
                           THEN [kind |-> "http", status |-> 503]
                           ELSE [kind |-> "exit", code |-> 1]
       ELSE /\ phase' = "loop"
            /\ response' = NoResponse
    /\ IF caller = "cli" /\ backend = "memory"
       THEN cache' = EmptyMap /\ _cache_timestamps' = EmptyMap
            /\ written' = EmptyMap
       ELSE UNCHANGED <<cache, _cache_timestamps, written>>
    /\ UNCHANGED <<caller, sources, backend, now, call>>
    /\ UNCHANGED exceptAcquire

\* One pass through the body of `for source in ...`: cache lookup (dashboard
\* with use_cache), fetch, standardize_data, cache store, append; an
\* exception on the way is caught, recorded and the loop goes on.
Iterate ==
    /\ phase = "loop"
    /\ pos <= Len(sources_to_use(sources, request.source_names))
    /\ LET name == sources_to_use(sources, request.source_names)[pos]
           use_cache == caller # "api" /\ request.use_cache
           looked == get(name, cache_key(name))
       IN IF use_cache /\ truthy(looked.ret)
          THEN /\ results' = Append(results, looked.ret)
               /\ attempts' = Append(attempts,
                      [source |-> name, via |-> "cache",
                       fetched |-> Returned(looked.ret)])
               /\ pos' = pos + 1
               /\ UNCHANGED <<errors, phase, response, cache,
                              _cache_timestamps, written>>
          ELSE \E fetched \in FetchOutcomes :
                 LET std_data ==
                         IF fetched.ok
                         THEN standardize_data(fetched.value, name)
                         ELSE fetched
                     stored == set(name, cache_key(name), std_data.value)
                 IN /\ attempts' = Append(attempts,
                           [source |-> name, via |-> "fetch",
                            fetched |-> fetched])
                    /\ IF std_data.ok
                       THEN /\ results' = Append(results, std_data.value)
                            /\ pos' = pos + 1
                            /\ UNCHANGED <<errors, phase, response>>
                            /\ IF use_cache
                               THEN /\ cache' = stored.cache
                                    /\ _cache_timestamps' = stored.ts
                                    /\ written' =
                                         Put(written,
                                             <<name, ItemSet(cache_key(name))>>,
                                             [live |-> TRUE,
                                              value |-> std_data.value,
                                              at |-> now,
                                              params |-> cache_key(name)])
                               ELSE UNCHANGED <<cache, _cache_timestamps,
                                                written>>
                       ELSE /\ UNCHANGED <<results, written>>
                            /\ cache' = IF use_cache THEN looked.cache
                                        ELSE cache
                            /\ _cache_timestamps' =
                                   IF use_cache THEN looked.ts
                                   ELSE _cache_timestamps
                            /\ IF caught(std_data.exc)
                               THEN /\ errors' = Append(errors,
                                          [source |-> name,
                                           error |-> std_data.exc])
                                    /\ pos' = pos + 1
                                    /\ UNCHANGED <<phase, response>>
                               ELSE /\ phase' = "done"
                                    /\ response' =
                                          [kind |-> "aborted",
                                           exc |-> std_data.exc]
                                    /\ UNCHANGED <<errors, pos>>
    /\ UNCHANGED <<caller, sources, request, requests, backend, now, call>>
    /\ UNCHANGED exceptAcquire

\* After the loop.  api: 502 without data, else combine_sources and
\* validate_and_clean, whose exceptions nothing catches (500).  cli: exit 1
\* without data or when combining raises, else the combined record is shown.
\* lib: get_data_for_location returns results.
finish(who, data) ==
    LET combined_data == combine_sources(data)
        cleaned == IF combined_data.ok
                   THEN validate_and_clean(combined_data.value.v, "Medellin")
                   ELSE combined_data
    IN CASE who = "lib" -> [kind |-> "returned", value |-> data]
         [] who = "api" ->
              IF data = <<>> THEN [kind |-> "http", status |-> 502]
              ELSE IF cleaned.ok
                   THEN [kind |-> "http", status |-> 200,
                         body |-> cleaned.value]
                   ELSE [kind |-> "http", status |-> 500]
         [] who = "cli" ->
              IF data = <<>> THEN [kind |-> "exit", code |-> 1]
              ELSE IF combined_data.ok
                   THEN [kind |-> "exit", code |-> 0,
                         shown |-> combined_data.value]
                   ELSE [kind |-> "exit", code |-> 1]

Finish ==
    /\ phase = "loop"
    /\ pos > Len(sources_to_use(sources, request.source_names))
    /\ phase' = "done"
    /\ response' = finish(caller, [i \in 1..Len(results) |-> results[i].v])
    /\ UNCHANGED <<caller, sources, request, pos, results, errors, attempts,
                   requests>>
    /\ UNCHANGED cacheVars
    /\ UNCHANGED exceptAcquire

AcquireNext == StartRequest \/ Iterate \/ Finish

(***************************************************************************)
(* Dashboard.get_forecast_for_location, and acquisitions as time passes    *)
(***************************************************************************)
\* The cache_key dict of get_forecast_for_location, in insertion order.
forecast_cache_key(name, days) ==
    << <<"source", PyStr(name)>>, <<"lat", Latitude>>, <<"lon", Longitude>>,
       <<"type", PyStr("forecast")>>, <<"days", PyInt(days)>> >>

\* `source`: the registered provider called source_name, else the first one
\* when no name is given; PyNone when there is none.
forecast_source(srcs, source_name) ==
    IF truthy(source_name)
    THEN IF \E i \in 1..Len(srcs) : PyStr(srcs[i]) = source_name
         THEN source_name ELSE PyNone
    ELSE IF srcs # <<>> THEN PyStr(srcs[1]) ELSE PyNone

\* The `days` and `source_name` arguments of the model.
ForecastDays == {5}
ForecastSourceNames == {PyNone, PyStr("Open-Meteo"), PyStr("Windy")}

\* get_forecast: a payload carrying the number of days, or an exception of
\* the HTTP layer.
ForecastOutcomes(days) ==
    {Returned("forecast_days" :> PyInt(days) @@ p) : p \in Payloads}
    \cup {Raised("RequestException")}

NoForecast == [via |-> "none"]

ForecastInit == forecast_call = NoForecast

ForecastUnused == forecast_call = [via |-> "unused"]

\* A call of get_forecast_for_location(lat, lon, days, source_name,
\* use_cache): ValueError without a source; else cache lookup, get_forecast,
\* standardize_data, cache store; an exception on the way is logged and
\* raised again.
GetForecast ==
    /\ phase \in {"idle", "done"}
    /\ requests < MaxRequests
    /\ requests' = requests + 1
    /\ \E days \in ForecastDays, source_name \in ForecastSourceNames,
          use_cache \in BOOLEAN :
         LET source == forecast_source(sources, source_name)
             name == source.s
             key == forecast_cache_key(name, days)
             looked == get(name, key)
             args == [days |-> days, source_name |-> source_name,
                      use_cache |-> use_cache]
         IN IF source = PyNone
            THEN /\ forecast_call' = [via |-> "nothing", args |-> args,
                                      result |-> Raised("ValueError")]
                 /\ UNCHANGED <<cache, _cache_timestamps, written>>
            ELSE IF use_cache /\ truthy(looked.ret)
            THEN /\ forecast_call' = [via |-> "cache", args |-> args,
                                      source |-> name,
                                      result |-> Returned(looked.ret)]
                 /\ UNCHANGED <<cache, _cache_timestamps, written>>
            ELSE \E fetched \in ForecastOutcomes(days) :
                   LET std_forecast ==
                           IF fetched.ok
                           THEN standardize_data(fetched.value, name)
                           ELSE fetched
                       stored == set(name, key, std_forecast.value)
                   IN /\ forecast_call' = [via |-> "fetch", args |-> args,
                                           source |-> name,
                                           fetched |-> fetched,
                                           result |-> std_forecast]
                      /\ IF std_forecast.ok /\ use_cache
                         THEN /\ cache' = stored.cache
                              /\ _cache_timestamps' = stored.ts
                              /\ written' =
                                    Put(written, <<name, ItemSet(key)>>,
                                        [live |-> TRUE,
                                         value |-> std_forecast.value,
                                         at |-> now, params |-> key])
                         ELSE /\ cache' = IF use_cache THEN looked.cache
                                          ELSE cache
                              /\ _cache_timestamps' =
                                    IF use_cache THEN looked.ts
                                    ELSE _cache_timestamps
                              /\ UNCHANGED written
    /\ UNCHANGED <<caller, sources, request, phase, pos, results, errors,
                   attempts, response, backend, now, call>>
    /\ UNCHANGED exceptForecast

\* The Dashboard used as a library while time passes: acquisitions of current
\* weather and of forecasts through one CacheManager.
TimedInit ==
    /\ AcquireInit
    /\ caller = "lib"
    /\ Len(sources) <= 1

TimedNext == StartRequest \/ Iterate \/ Finish \/ GetForecast \/ Tick

(***************************************************************************)
(* validate_and_clean applied to combined records and to records a         *)
(* consumer builds                                                         *)
(***************************************************************************)
\* validate_and_clean: the dict passed as `data`, as it is once the call is
\* over (`data["validation_errors"] = critical_errors` is done before the
\* copy is taken).
validate_and_clean_argument(data, location) ==
    LET anomalies == detect_anomalies(data, location)
    IN IF ~anomalies.ok THEN data
       ELSE LET critical_errors ==
                    SelectSeq(anomalies.value,
                              LAMBDA a : a.severity = "error")
            IN IF critical_errors = <<>> THEN data
               ELSE "validation_errors" :> PyList(critical_errors) @@ data

\* What combine_sources returns for the lists of observations of the model.
CombinedRecords ==
    { combine_sources(dl).value.v :
        dl \in { l \in UNION {[1..n -> ObsUniverse] : n \in 0..MaxObs} :
                     combine_sources(l).ok } }

\* Records a consumer hands over itself, with fields absent or None.
CallerRecords ==
    { a @@ b @@ c @@ d @@ e :
        a \in Opt("temperature", {PyNone, PyInt(20), PyStr("n/a")}),
        b \in Opt("humidity", {PyNone, PyInt(60)}),
        c \in Opt("precipitation", {PyNone, PyInt(0), PyInt(5)}),
        d \in Opt("wind_speed", {PyNone, PyInt(10)}),
        e \in Opt("pressure", {PyNone, PyInt(1013)}) }

CleanInit ==
    /\ record_origin \in {"combine_sources", "caller"}
    /\ record \in IF record_origin = "caller" THEN CallerRecords
                  ELSE CombinedRecords
    /\ record_before = record
    /\ cleaning = Pending

CleanUnused ==
    /\ record_origin = "none"
    /\ record = EmptyMap
    /\ record_before = EmptyMap
    /\ cleaning = NotApplied

\* A call of validate_and_clean(record, "Medellín").
ValidateAndClean ==
    /\ cleaning = Pending
    /\ cleaning' = validate_and_clean(record, "Medellin")
    /\ record' = validate_and_clean_argument(record, "Medellin")
    /\ UNCHANGED <<record_origin, record_before>>
    /\ UNCHANGED exceptClean

CleanNext == ValidateAndClean

(***************************************************************************)
(* CacheManager.get and set with parameters json cannot serialise and with *)
(* a store that fails                                                      *)
(***************************************************************************)
\* A datetime object, as a caller may put in params.
PyDatetime == [t |-> "datetime", at |-> 0]

\* json.dumps accepts None, numbers, strings and dicts and lists of them;
\* it raises TypeError on any other object.  The values of the model's
\* params are scalars.
json_serializable(params) ==
    \A i \in 1..Len(params) : params[i][2].t \in {"none", "num", "str"}

\* The params dicts of the calls: those of the driver above, and one holding
\* a datetime.
FaultParamDicts ==
    ParamDicts \cup { << <<"lat", PyInt(6)>>, <<"since", PyDatetime>> >> }

\* How the store behaves during a call.  Only the durable store (sqlite
\* under diskcache) can fail; the memory tier uses two dicts.
StorageStates == IF backend = "disk" THEN {"ok", "error"} ELSE {"ok"}

\* CacheManager.get as the caller sees it: the exception that reaches the
\* caller ("none" when the call returns), the value returned and the stores
\* left behind.  _generate_key is called before the try block.
get_call(source, params, storage) ==
    IF ~json_serializable(params)
    THEN [exc |-> "TypeError", ret |-> PyNone, cache |-> cache,
          ts |-> _cache_timestamps]
    ELSE IF storage = "error"
         THEN [exc |-> "none", ret |-> PyNone, cache |-> cache,
               ts |-> _cache_timestamps]
         ELSE LET r == get(source, params)
              IN [exc |-> "none", ret |-> r.ret, cache |-> r.cache,
                  ts |-> r.ts]

\* CacheManager.set as the caller sees it.
set_call(source, params, value, storage) ==
    IF ~json_serializable(params)
    THEN [exc |-> "TypeError", ret |-> FALSE, cache |-> cache,
          ts |-> _cache_timestamps]
    ELSE IF storage = "error"
         THEN [exc |-> "none", ret |-> FALSE, cache |-> cache,
               ts |-> _cache_timestamps]
         ELSE LET r == set(source, params, value)
              IN [exc |-> "none", ret |-> r.ret, cache |-> r.cache,
                  ts |-> r.ts]

FaultGet ==
    \E source \in SourceNames, params \in FaultParamDicts,
       storage \in StorageStates :
        LET r == get_call(source, params, storage)
        IN /\ cache' = r.cache
           /\ _cache_timestamps' = r.ts
           /\ call' = [op |-> "get", source |-> source, params |-> params,
                       storage |-> storage, exc |-> r.exc, ret |-> r.ret,
                       same |-> r.cache = cache]
           /\ UNCHANGED <<backend, now, written>>
           /\ UNCHANGED exceptCache

FaultSet ==
    \E source \in SourceNames, params \in FaultParamDicts,
       value \in CacheValues, storage \in StorageStates :
        LET r == set_call(source, params, value, storage)
        IN /\ cache' = r.cache
           /\ _cache_timestamps' = r.ts
           /\ call' = [op |-> "set", source |-> source, params |-> params,
                       storage |-> storage, exc |-> r.exc, ret |-> r.ret,
                       same |-> r.cache = cache]
           /\ written' = IF r.exc = "none" /\ r.ret
                         THEN Put(written, <<source, ItemSet(params)>>,
                                  [live |-> TRUE, value |-> value,
                                   at |-> now, params |-> params])
                         ELSE written
           /\ UNCHANGED <<backend, now>>
           /\ UNCHANGED exceptCache

FaultsNext == Tick \/ FaultGet \/ FaultSet

(***************************************************************************)
(* The two tiers of CacheManager given the same calls on the same clock    *)
(***************************************************************************)
TiersInit ==
    /\ disk_cache = EmptyMap
    /\ memory_cache = EmptyMap
    /\ memory_timestamps = EmptyMap
    /\ clock = 0
    /\ both = NoCall

TiersUnused ==
    /\ disk_cache = EmptyMap
    /\ memory_cache = EmptyMap
    /\ memory_timestamps = EmptyMap
    /\ clock = 0
    /\ both = [op |-> "unused"]

TiersTick ==
    /\ clock < MaxTime
    /\ clock' = clock + 1
    /\ both' = NoCall
    /\ UNCHANGED <<disk_cache, memory_cache, memory_timestamps>>
    /\ UNCHANGED exceptTiers

\* get(source, params) on both managers.
TiersGet ==
    \E source \in SourceNames, params \in ParamDicts :
        LET d == tier_get("disk", disk_cache, EmptyMap, source, params, clock)
            m == tier_get("memory", memory_cache, memory_timestamps, source,
                          params, clock)
        IN /\ disk_cache' = d.cache
           /\ memory_cache' = m.cache
           /\ memory_timestamps' = m.ts
           /\ both' = [op |-> "get", source |-> source, params |-> params,
                       disk |-> d.ret, memory |-> m.ret]
           /\ UNCHANGED clock
           /\ UNCHANGED exceptTiers

\* set(source, params, value) on both managers.
TiersSet ==
    \E source \in SourceNames, params \in ParamDicts, value \in CacheValues :
        LET d == tier_set("disk", disk_cache, EmptyMap, source, params, value,
                          clock)
            m == tier_set("memory", memory_cache, memory_timestamps, source,
                          params, value, clock)
        IN /\ disk_cache' = d.cache
           /\ memory_cache' = m.cache
           /\ memory_timestamps' = m.ts
           /\ both' = [op |-> "set", source |-> source, params |-> params,
                       disk |-> d.ret, memory |-> m.ret]
           /\ UNCHANGED clock
           /\ UNCHANGED exceptTiers

\* invalidate() or invalidate(source) on both managers.
TiersInvalidate ==
    \E source \in {PyNone} \cup {PyStr(n) : n \in SourceNames} :
        LET d == tier_invalidate("disk", disk_cache, EmptyMap, source)
            m == tier_invalidate("memory", memory_cache, memory_timestamps,
                                 source)
        IN /\ disk_cache' = d.cache
           /\ memory_cache' = m.cache
           /\ memory_timestamps' = m.ts
           /\ both' = [op |-> "invalidate", source |-> source,
                       disk |-> d.ret, memory |-> m.ret]
           /\ UNCHANGED clock
           /\ UNCHANGED exceptTiers

TiersNext == TiersTick \/ TiersGet \/ TiersSet \/ TiersInvalidate

(***************************************************************************)
(* Object identity: what the cache keeps of a dict and what callers hold   *)
(***************************************************************************)
\* The number of dict objects a run creates.
MaxObjects == 3

NoSlot == [kind |-> "none"]

\* `self.cache[key] = value` keeps the object itself; diskcache pickles it.
\* `self.cache[key] = value` keeps the object itself; diskcache pickles it.
store_object(tier, o, items) ==
    IF tier = "memory" THEN [kind |-> "ref", id |-> o]
    ELSE [kind |-> "pickle", items |-> items]

\* The items of the object a get of the key returns now, within the TTL.
slot_items == IF slot.kind = "ref" THEN heap[slot.id] ELSE slot.items

\* The identity of the next object created.
fresh_object == Cardinality(DOMAIN heap) + 1

\* What a caller writes into a dict it holds.
Edits == {"temperature" :> PyInt(99)}

RefInit ==
    /\ ref_tier \in {"disk", "memory"}
    /\ heap = EmptyMap
    /\ slot = NoSlot
    /\ handles = {}
    /\ acquired = <<>>
    /\ last_stored = PyNone

RefUnused ==
    /\ ref_tier = "none"
    /\ heap = EmptyMap
    /\ slot = NoSlot
    /\ handles = {}
    /\ acquired = <<>>
    /\ last_stored = PyNone

\* The caller builds a dict, or takes one it holds, and calls
\* set(source, params, value).
RefSet ==
    /\ \E o \in handles \cup {fresh_object}, v \in CacheValues :
          /\ o <= MaxObjects
          /\ heap' = IF o \in DOMAIN heap THEN heap ELSE Put(heap, o, v.v)
          /\ slot' = store_object(ref_tier, o, heap'[o])
          /\ handles' = handles \cup {o}
          /\ last_stored' = PyDict(heap'[o])
    /\ UNCHANGED <<ref_tier, acquired>>
    /\ UNCHANGED exceptRef

\* The caller calls get(source, params) on an entry within its TTL: the
\* memory tier returns the stored object, the durable tier a new object
\* unpickled from the store.
RefGet ==
    /\ slot # NoSlot
    /\ IF slot.kind = "ref"
       THEN /\ handles' = handles \cup {slot.id}
            /\ UNCHANGED heap
       ELSE /\ fresh_object <= MaxObjects
            /\ heap' = Put(heap, fresh_object, slot.items)
            /\ handles' = handles \cup {fresh_object}
    /\ UNCHANGED <<ref_tier, slot, acquired, last_stored>>
    /\ UNCHANGED exceptRef

\* One pass of get_data_for_location with use_cache: on a hit the object
\* get returned is appended to results; on a miss the standardized dict is
\* built, given to set and appended to results.  The caller holds results.
RefAcquire ==
    /\ IF slot # NoSlot /\ slot_items # EmptyMap
       THEN IF slot.kind = "ref"
            THEN /\ handles' = handles \cup {slot.id}
                 /\ acquired' = <<slot.id>>
                 /\ UNCHANGED <<heap, slot, last_stored>>
            ELSE /\ fresh_object <= MaxObjects
                 /\ heap' = Put(heap, fresh_object, slot.items)
                 /\ handles' = handles \cup {fresh_object}
                 /\ acquired' = <<fresh_object>>
                 /\ UNCHANGED <<slot, last_stored>>
       ELSE \E v \in CacheValues :
              /\ fresh_object <= MaxObjects
              /\ heap' = Put(heap, fresh_object, v.v)
              /\ slot' = store_object(ref_tier, fresh_object, v.v)
              /\ handles' = handles \cup {fresh_object}
              /\ acquired' = <<fresh_object>>
              /\ last_stored' = v
    /\ UNCHANGED ref_tier
    /\ UNCHANGED exceptRef

\* The caller assigns to a key of a dict it holds.
Mutate ==
    /\ \E o \in handles, e \in Edits :
          /\ heap[o] # e @@ heap[o]
          /\ heap' = [heap EXCEPT ![o] = e @@ heap[o]]
    /\ UNCHANGED <<ref_tier, slot, handles, acquired, last_stored>>
    /\ UNCHANGED exceptRef

RefNext == RefSet \/ RefGet \/ RefAcquire \/ Mutate

(***************************************************************************)
(* Threads calling get and set of one memory-tier CacheManager on one key  *)
(***************************************************************************)
\* The threads sharing the CacheManager and the calls they make in a run.
MaxThreads == 2
MaxCalls == 3

RaceParams == << <<"lat", PyInt(6)>>, <<"type", PyStr("current")>> >>

\* The key every call of the run is about.
RaceKey == _generate_key("Open-Meteo", RaceParams)

Idle(ret) == [op |-> "idle", ret |-> ret]

\* What the except clause of get / set returns; the exception is logged
\* and does not leave the method.
get_except == PyNone

RaceInit ==
    /\ race_cache \in {EmptyMap} \cup {RaceKey :> v : v \in CacheValues}
    /\ race_stamps = [k \in DOMAIN race_cache |-> 0]
    /\ race_clock = 0
    /\ threads = [t \in 1..MaxThreads |-> Idle(PyNone)]
    /\ started = 0
    /\ sets_done = IF race_cache = EmptyMap THEN <<>>
                   ELSE <<[value |-> race_cache[RaceKey], at |-> 0,
                           entered |-> 0]>>

RaceUnused ==
    /\ race_cache = EmptyMap
    /\ race_stamps = EmptyMap
    /\ race_clock = 0
    /\ threads = <<>>
    /\ started = 0
    /\ sets_done = <<>>

RaceTick ==
    /\ race_clock < MaxTime
    /\ race_clock' = race_clock + 1
    /\ UNCHANGED <<race_cache, race_stamps, threads, started, sets_done>>
    /\ UNCHANGED exceptRace

\* A thread enters get(source, params).
BeginGet ==
    /\ started < MaxCalls
    /\ \E t \in 1..MaxThreads :
          /\ threads[t].op = "idle"
          /\ threads' = [threads EXCEPT ![t] = [op |-> "get", pc |-> "in"]]
    /\ started' = started + 1
    /\ UNCHANGED <<race_cache, race_stamps, race_clock, sets_done>>
    /\ UNCHANGED exceptRace

\* A thread enters set(source, params, value).
BeginSet ==
    /\ started < MaxCalls
    /\ \E t \in 1..MaxThreads, v \in CacheValues :
          /\ threads[t].op = "idle"
          /\ threads' = [threads EXCEPT
                            ![t] = [op |-> "set", pc |-> "value", value |-> v,
                                    entered |-> Len(sets_done)]]
    /\ started' = started + 1
    /\ UNCHANGED <<race_cache, race_stamps, race_clock, sets_done>>
    /\ UNCHANGED exceptRace

\* `if key in self.cache:`
GetIn ==
    /\ \E t \in 1..MaxThreads :
          /\ threads[t].op = "get" /\ threads[t].pc = "in"
          /\ threads' = [threads EXCEPT
                 ![t] = IF RaceKey \in DOMAIN race_cache
                        THEN [op |-> "get", pc |-> "timestamp"]
                        ELSE Idle(PyNone)]
    /\ UNCHANGED <<race_cache, race_stamps, race_clock, started, sets_done>>
    /\ UNCHANGED exceptRace

\* `timestamp = self._cache_timestamps.get(key)`, `if timestamp:` and the
\* comparison of the age with ttl_seconds.
GetTimestamp ==
    /\ \E t \in 1..MaxThreads :
          /\ threads[t].op = "get" /\ threads[t].pc = "timestamp"
          /\ threads' = [threads EXCEPT
                 ![t] = IF RaceKey \notin DOMAIN race_stamps
                        THEN Idle(PyNone)
                        ELSE IF race_clock - race_stamps[RaceKey] < TtlSeconds
                        THEN [op |-> "get", pc |-> "return"]
                        ELSE [op |-> "get", pc |-> "del value"]]
    /\ UNCHANGED <<race_cache, race_stamps, race_clock, started, sets_done>>
    /\ UNCHANGED exceptRace

\* `return self.cache[key]`; KeyError when the key has gone meanwhile.
GetReturn ==
    /\ \E t \in 1..MaxThreads :
          /\ threads[t].op = "get" /\ threads[t].pc = "return"
          /\ threads' = [threads EXCEPT
                 ![t] = IF RaceKey \in DOMAIN race_cache
                        THEN Idle(race_cache[RaceKey])
                        ELSE Idle(get_except)]
    /\ UNCHANGED <<race_cache, race_stamps, race_clock, started, sets_done>>
    /\ UNCHANGED exceptRace

\* `del self.cache[key]`; KeyError when the key has gone meanwhile.
GetDelValue ==
    /\ \E t \in 1..MaxThreads :
          /\ threads[t].op = "get" /\ threads[t].pc = "del value"
          /\ threads' = [threads EXCEPT
                 ![t] = IF RaceKey \in DOMAIN race_cache
                        THEN [op |-> "get", pc |-> "del timestamp"]
                        ELSE Idle(get_except)]
    /\ race_cache' = Restrict(race_cache, DOMAIN race_cache \ {RaceKey})
    /\ UNCHANGED <<race_stamps, race_clock, started, sets_done>>
    /\ UNCHANGED exceptRace

\* `del self._cache_timestamps[key]`, then the miss is returned.
GetDelTimestamp ==
    /\ \E t \in 1..MaxThreads :
          /\ threads[t].op = "get" /\ threads[t].pc = "del timestamp"
          /\ threads' = [threads EXCEPT ![t] = Idle(PyNone)]
    /\ race_stamps' = Restrict(race_stamps, DOMAIN race_stamps \ {RaceKey})
    /\ UNCHANGED <<race_cache, race_clock, started, sets_done>>
    /\ UNCHANGED exceptRace

\* `self.cache[key] = value`
SetValue ==
    /\ \E t \in 1..MaxThreads :
          /\ threads[t].op = "set" /\ threads[t].pc = "value"
          /\ race_cache' = Put(race_cache, RaceKey, threads[t].value)
          /\ threads' = [threads EXCEPT ![t].pc = "timestamp"]
    /\ UNCHANGED <<race_stamps, race_clock, started, sets_done>>
    /\ UNCHANGED exceptRace

\* `self._cache_timestamps[key] = datetime.now()`, then True is returned.
SetTimestamp ==
    /\ \E t \in 1..MaxThreads :
          /\ threads[t].op = "set" /\ threads[t].pc = "timestamp"
          /\ race_stamps' = Put(race_stamps, RaceKey, race_clock)
          /\ sets_done' = Append(sets_done,
                                 [value |-> threads[t].value,
                                  at |-> race_clock,
                                  entered |-> threads[t].entered])
          /\ threads' = [threads EXCEPT ![t] = Idle(TRUE)]
    /\ UNCHANGED <<race_cache, race_clock, started>>
    /\ UNCHANGED exceptRace

RaceNext ==
    \/ RaceTick \/ BeginGet \/ BeginSet \/ GetIn \/ GetTimestamp
    \/ GetReturn \/ GetDelValue \/ GetDelTimestamp \/ SetValue
    \/ SetTimestamp

(***************************************************************************)
(* Threads calling SIATASource.get_stations of one provider                *)
(***************************************************************************)
\* _get_default_stations()
default_stations ==
    PyList(<<PyStr("medellin_centro"), PyStr("bello"), PyStr("envigado")>>)

\* What the request for datos/estaciones can lead to: a JSON body with or
\* without the key "estaciones", or an exception of _make_request.
StationAnswers ==
    { Returned("estaciones" :> PyList(<<PyStr("201")>>)),
      Returned("estaciones" :> PyList(<<PyStr("201"), PyStr("202")>>)),
      Returned(EmptyMap),
      Raised("RequestException") }

StationsInit ==
    /\ _stations_cache = PyNone
    /\ station_threads = [t \in 1..MaxThreads |-> Idle(PyNone)]
    /\ station_calls = 0
    /\ upstream = <<>>

StationsUnused ==
    /\ _stations_cache = PyNone
    /\ station_threads = <<>>
    /\ station_calls = 0
    /\ upstream = <<>>

\* A thread enters get_stations: `if self._stations_cache is not None:
\* return self._stations_cache`.
BeginStations ==
    /\ station_calls < MaxCalls
    /\ \E t \in 1..MaxThreads :
          /\ station_threads[t].op = "idle"
          /\ station_threads' = [station_threads EXCEPT
                 ![t] = IF _stations_cache # PyNone
                        THEN [op |-> "idle", ret |-> _stations_cache,
                              memo |-> TRUE]
                        ELSE [op |-> "get_stations", pc |-> "request"]]
    /\ station_calls' = station_calls + 1
    /\ UNCHANGED <<_stations_cache, upstream>>
    /\ UNCHANGED exceptStations

\* `response = self._make_request(endpoint, params={})` and
\* `data = response.json()`; on an exception the default stations are
\* returned and the memo is left as it is.
StationsRequest ==
    /\ \E t \in 1..MaxThreads, a \in StationAnswers :
          /\ station_threads[t].op = "get_stations"
          /\ station_threads[t].pc = "request"
          /\ upstream' = Append(upstream, a)
          /\ station_threads' = [station_threads EXCEPT
                 ![t] = IF a.ok
                        THEN [op |-> "get_stations", pc |-> "store",
                              data |-> a.value]
                        ELSE Idle(default_stations)]
    /\ UNCHANGED <<_stations_cache, station_calls>>
    /\ UNCHANGED exceptStations

\* `self._stations_cache = data.get("estaciones", [])`, then it is returned.
StationsStore ==
    /\ \E t \in 1..MaxThreads :
          /\ station_threads[t].op = "get_stations"
          /\ station_threads[t].pc = "store"
          /\ _stations_cache' = dict_get(station_threads[t].data,
                                         "estaciones", PyList(<<>>))
          /\ station_threads' = [station_threads EXCEPT
                                   ![t] = Idle(_stations_cache')]
    /\ UNCHANGED <<station_calls, upstream>>
    /\ UNCHANGED exceptStations

StationsNext == BeginStations \/ StationsRequest \/ StationsStore

LaterUnused == CleanUnused /\ ForecastUnused
    /\ TiersUnused
    /\ RefUnused
    /\ RaceUnused
    /\ StationsUnused

(***************************************************************************)
(* Specifications: one per component, the other components left unused     *)
(***************************************************************************)
InitCache == CacheInit /\ RetryUnused /\ CombineUnused /\ AcquireUnused
    /\ NormalizeUnused /\ SourceUnused /\ LaterUnused

SpecCache == InitCache /\ [][CacheNext]_vars

InitRetry == RetryInit /\ CacheUnused /\ CombineUnused /\ AcquireUnused
    /\ NormalizeUnused /\ SourceUnused /\ LaterUnused

SpecRetry == InitRetry /\ [][RetryNext]_vars

InitCombine == CombineInit /\ CacheUnused /\ RetryUnused /\ AcquireUnused
    /\ NormalizeUnused /\ SourceUnused /\ LaterUnused

SpecCombine == InitCombine /\ [][CombineNext]_vars

InitAcquire == AcquireInit /\ CacheInit /\ RetryUnused /\ CombineUnused
    /\ NormalizeUnused /\ SourceUnused /\ LaterUnused

SpecAcquire == InitAcquire /\ [][AcquireNext]_vars

InitNormalize == CacheUnused /\ NormalizeInit /\ RetryUnused /\ CombineUnused
    /\ AcquireUnused /\ SourceUnused /\ LaterUnused

SpecNormalize == InitNormalize /\ [][NormalizeNext]_vars

InitSource == SourceInit /\ CacheUnused /\ RetryUnused /\ CombineUnused
    /\ AcquireUnused /\ NormalizeUnused /\ LaterUnused

SpecSource == InitSource /\ [][SourceNext]_vars

InitClean == CacheUnused /\ CleanInit /\ RetryUnused /\ CombineUnused
    /\ AcquireUnused /\ NormalizeUnused /\ SourceUnused /\ ForecastUnused
    /\ TiersUnused
    /\ RefUnused
    /\ RaceUnused
    /\ StationsUnused

SpecClean == InitClean /\ [][CleanNext]_vars

InitTimed == TimedInit /\ CacheInit /\ ForecastInit /\ RetryUnused
    /\ CombineUnused /\ NormalizeUnused /\ SourceUnused /\ CleanUnused
    /\ TiersUnused
    /\ RefUnused
    /\ RaceUnused
    /\ StationsUnused

SpecTimed == InitTimed /\ [][TimedNext]_vars

InitTiers == TiersInit /\ CacheUnused /\ RetryUnused /\ CombineUnused
    /\ AcquireUnused /\ NormalizeUnused /\ SourceUnused /\ CleanUnused
    /\ ForecastUnused
    /\ RefUnused
    /\ RaceUnused
    /\ StationsUnused

SpecTiers == InitTiers /\ [][TiersNext]_vars

SpecFaults == InitCache /\ [][FaultsNext]_vars

InitRef == RefInit /\ CacheUnused /\ RetryUnused /\ CombineUnused
    /\ AcquireUnused /\ NormalizeUnused /\ SourceUnused /\ CleanUnused
    /\ ForecastUnused /\ TiersUnused
    /\ RaceUnused
    /\ StationsUnused

SpecRef == InitRef /\ [][RefNext]_vars

InitRace == RaceInit /\ CacheUnused /\ RetryUnused /\ CombineUnused
    /\ AcquireUnused /\ NormalizeUnused /\ SourceUnused /\ CleanUnused
    /\ ForecastUnused /\ TiersUnused /\ RefUnused
    /\ StationsUnused

SpecRace == InitRace /\ [][RaceNext]_vars

InitStations == StationsInit /\ CacheUnused /\ RetryUnused /\ CombineUnused
    /\ AcquireUnused /\ NormalizeUnused /\ SourceUnused /\ CleanUnused
    /\ ForecastUnused /\ TiersUnused /\ RefUnused /\ RaceUnused

SpecStations == InitStations /\ [][StationsNext]_vars

(***************************************************************************)
(* Claims about the cache                                                  *)
(***************************************************************************)
LogicalQuery(c) == <<c.source, ItemSet(c.params)>>

SameParams(c) == {q \in ParamDicts : ItemSet(q) = ItemSet(c.params)}

\* C1: the cache key of a get or set does not depend on the order in which
\* the parameter keys were supplied, so a value stored with one ordering is
\* hit by a get that supplies any other ordering of the same parameters.
C1_KeyDeterminism ==
    call.op \in {"get", "set"} =>
        \A q \in SameParams(call) :
            /\ _generate_key(call.source, q)
                   = _generate_key(call.source, call.params)
            /\ call.op = "set" => get(call.source, q).ret = call.value

\* A get that hit a value stored under another ordering of its parameters.
C1_Witness ==
    /\ call.op = "get"
    /\ call.ret # PyNone
    /\ LogicalQuery(call) \in DOMAIN written
    /\ written[LogicalQuery(call)].live
    /\ written[LogicalQuery(call)].params # call.params

\* C2: a get before the TTL of the last set has run out returns the stored
\* value; a get after it has run out returns None, whether or not an earlier
\* get already missed, and in the memory tier leaves no entry behind.
C2_TtlExpiry ==
    (call.op = "get" /\ LogicalQuery(call) \in DOMAIN written) =>
        LET w == written[LogicalQuery(call)]
            key == _generate_key(call.source, call.params)
        IN /\ (w.live /\ now < w.at + TtlSeconds) => call.ret = w.value
           /\ now > w.at + TtlSeconds =>
                  /\ call.ret = PyNone
                  /\ backend = "memory" =>
                         /\ key \notin DOMAIN cache
                         /\ key \notin DOMAIN _cache_timestamps

\* A get that missed because the TTL of a stored value had run out.
C2_Witness ==
    /\ call.op = "get"
    /\ call.ret = PyNone
    /\ LogicalQuery(call) \in DOMAIN written
    /\ written[LogicalQuery(call)].live
    /\ now > written[LogicalQuery(call)].at + TtlSeconds

\* C3: a set replaces whatever entry the key had, expired or not, and its
\* TTL starts at the time of this set: a get at any time within TTL of the
\* set returns the value of this set.
C3_LastWriterWins ==
    call.op = "set" =>
        /\ call.ret = TRUE
        /\ \A t \in now..(now + TtlSeconds - 1) :
               get_at(call.source, call.params, t).ret = call.value

\* A set that replaced an unexpired entry holding another value.
C3_Witness ==
    /\ call.op = "set"
    /\ call.over = "fresh"
    /\ \E v \in CacheValues : v # call.value
    /\ now > 0

(***************************************************************************)
(* Claims about the acquisition of current weather (SpecAcquire)           *)
(***************************************************************************)
\* The providers the request names: all registered ones, or the registered
\* ones whose name is in source_names.
NamedProviders ==
    IF request.source_names = PyNone THEN sources
    ELSE SelectSeq(sources, LAMBDA n :
             PyStr(n) \in {request.source_names.v[j] :
                              j \in 1..Len(request.source_names.v)})

\* The provider of attempt a failed: its fetch or the standardization of
\* what it fetched raised.
Failed(a) ==
    a.via = "fetch"
    /\ (~a.fetched.ok \/ ~standardize_data(a.fetched.value, a.source).ok)

\* The observation attempt a produced.
Observation(a) ==
    IF a.via = "cache" THEN a.fetched.value
    ELSE standardize_data(a.fetched.value, a.source).value

Produced == SelectSeq(attempts, LAMBDA a : ~Failed(a))
NotProduced == SelectSeq(attempts, LAMBDA a : Failed(a))

\* C4 (provider isolation): an exception from one provider's fetch or
\* standardization never propagates out of the loop; the loop attempts every
\* provider it was asked for, in order; the observations returned are those
\* of the providers that did not fail, in order; and each failing provider
\* leaves exactly one error entry, in order.
C4_ProviderIsolation ==
    /\ response.kind # "aborted"
    /\ phase = "loop" =>
          /\ pos = Len(attempts) + 1
          /\ pos <= Len(NamedProviders) + 1
    /\ phase = "done" /\ ~(sources = <<>> /\ caller \in {"api", "cli"}) =>
          Len(attempts) = Len(NamedProviders)
    /\ \A i \in 1..Len(attempts) : attempts[i].source = NamedProviders[i]
    /\ results = [i \in 1..Len(Produced) |-> Observation(Produced[i])]
    /\ Len(errors) = Len(NotProduced)
    /\ \A i \in 1..Len(errors) : errors[i].source = NotProduced[i].source

\* Three providers, the second one fails, the other two are in the answer.
C4_Witness ==
    /\ phase = "done"
    /\ Len(attempts) = 3
    /\ ~Failed(attempts[1]) /\ Failed(attempts[2]) /\ ~Failed(attempts[3])
    /\ Len(results) = 2
    /\ Len(errors) = 1
    /\ response.kind = "http" /\ response.status = 200

\* C5 (partial success is not failure): the request fails if and only if no
\* provider produced an observation -- REST: 503 exactly when no provider is
\* registered, 502 exactly when providers are registered and none produced
\* an observation, 200 with the combined record otherwise; CLI: exit 1
\* exactly when there is no observation, exit 0 otherwise.
C5_PartialSuccess ==
    phase = "done" /\ caller \in {"api", "cli"} =>
        IF caller = "api"
        THEN /\ response.status = 503 <=> sources = <<>>
             /\ response.status = 502 <=> sources # <<>> /\ results = <<>>
             /\ response.status = 200 <=> results # <<>>
        ELSE /\ response.code = 1 <=> results = <<>>
             /\ response.code = 0 <=> results # <<>>

(***************************************************************************)
(* Claims about _retry_with_backoff                                        *)
(***************************************************************************)
RECURSIVE SumSeq(_)
SumSeq(q) == IF q = <<>> THEN 0 ELSE Head(q) + SumSeq(Tail(q))

\* C6: when func fails k times and then succeeds, with k < max_attempts, the
\* helper has called func k+1 times, returns func's result and has slept
\* once after each failure: 1 second after the first, and after each later
\* failure the previous wait times the backoff factor (factor^i after
\* failure i), factor^0 + ... + factor^(k-1) in total.
C6_BackoffSuccess ==
    outcome.kind = "returned" =>
        LET k == Len(raised)
        IN /\ k < max_attempts
           /\ outcome.func_calls = k + 1
           /\ outcome.value = outcome.func_value
           /\ Len(slept) = k
           /\ \A i \in 1..k :
                  slept[i] = IF i = 1 THEN 1
                             ELSE retry_backoff_factor * slept[i - 1]
           /\ SumSeq(slept) * (retry_backoff_factor - 1)
                  = Pow(retry_backoff_factor, k) - 1

\* func failed twice and then succeeded under a budget of three attempts.
C6_Witness ==
    /\ outcome.kind = "returned"
    /\ Len(raised) = 2
    /\ max_attempts = 3
    /\ slept = <<1, retry_backoff_factor>>

\* C7: when func fails on every attempt and max_attempts >= 1, the helper
\* has called func max_attempts times, has not slept after the last failure
\* and raises the exception of the last attempt.
C7_BackoffExhausted ==
    (outcome.kind = "raised" /\ max_attempts >= 1) =>
        /\ outcome.func_calls = max_attempts
        /\ Len(raised) = max_attempts
        /\ Len(slept) = max_attempts - 1
        /\ outcome.exc = raised[max_attempts]

\* Three failures with different exceptions; the last one was raised.
C7_Witness ==
    /\ outcome.kind = "raised"
    /\ max_attempts = 3
    /\ raised[3] # raised[2]
    /\ raised[3] # raised[1]
    /\ outcome.exc = raised[3]

(***************************************************************************)
(* Claims about combine_sources                                            *)
(***************************************************************************)
Fields == {numeric_fields[i] : i \in 1..Len(numeric_fields)}

\* The observations of data_list that report a value for the field.
Reporters(field) ==
    {i \in 1..Len(data_list) :
        field \in DOMAIN data_list[i] /\ data_list[i][field] # PyNone}

\* The sum of the (integer) values the observations in idx report.
RECURSIVE ReportedSum(_, _)
ReportedSum(idx, field) ==
    IF idx = {} THEN 0
    ELSE LET i == CHOOSE x \in idx : TRUE
         IN data_list[i][field].n + ReportedSum(idx \ {i}, field)

StatKeys(field) ==
    {field, field \o "_mean", field \o "_min", field \o "_max",
     field \o "_count"}

\* r[field_mean] = sum / count over the observations in idx
IsMeanOver(r, field, idx) ==
    r[field \o "_mean"].n * Cardinality(idx)
        = r[field \o "_mean"].d * ReportedSum(idx, field)

\* r[field_min] and r[field_max] are the extremes of the values in idx
IsRangeOver(r, field, idx) ==
    /\ \E i \in idx : r[field \o "_min"] = data_list[i][field]
    /\ \E i \in idx : r[field \o "_max"] = data_list[i][field]
    /\ \A i \in idx :
           /\ ~num_lt(data_list[i][field], r[field \o "_min"])
           /\ ~num_lt(r[field \o "_max"], data_list[i][field])

\* C8: for a non-empty list and every numeric field that some observation
\* reports, the result has field_mean = sum/count, field_min, field_max and
\* field_count over the reported values, the headline field equals
\* field_mean, and sources holds the source of every observation in input
\* order.
C8_Aggregation ==
    (combined # Pending /\ data_list # <<>>) =>
        /\ combined.ok
        /\ \A f \in Fields :
               Reporters(f) # {} =>
                   LET r == combined.value.v
                   IN /\ StatKeys(f) \subseteq DOMAIN r
                      /\ IsMeanOver(r, f, Reporters(f))
                      /\ IsRangeOver(r, f, Reporters(f))
                      /\ r[f \o "_count"] = PyInt(Cardinality(Reporters(f)))
                      /\ r[f] = r[f \o "_mean"]
        /\ combined.value.v["sources"].t = "list"
        /\ Len(combined.value.v["sources"].v) = Len(data_list)
        /\ \A i \in 1..Len(data_list) :
               combined.value.v["sources"].v[i] =
                   IF "source" \in DOMAIN data_list[i]
                   THEN data_list[i]["source"] ELSE PyNone

\* Three observations that all report a temperature, with a mean that is
\* none of the reported values.
C8_Witness ==
    /\ combined.ok
    /\ Len(data_list) = 3
    /\ Cardinality(Reporters("temperature")) = 3
    /\ combined.value.v["temperature"].d # 1
    /\ combined.value.v["temperature_min"] # combined.value.v["temperature_max"]

\* C9: each field's statistics are computed over exactly the observations
\* whose value for it is not None (a missing key and None are skipped, a
\* reported 0 counts); a field nobody reports gets none of its five keys.
C9_PartialData ==
    (combined # Pending /\ data_list # <<>>) =>
        /\ combined.ok
        /\ \A f \in Fields :
               LET r == combined.value.v
               IN IF Reporters(f) = {}
                  THEN StatKeys(f) \cap DOMAIN r = {}
                  ELSE /\ StatKeys(f) \subseteq DOMAIN r
                       /\ r[f \o "_count"].n = Cardinality(Reporters(f))
                       /\ r[f \o "_count"].d = 1
                       /\ IsMeanOver(r, f, Reporters(f))

\* A list in which one observation has temperature None, one has no
\* temperature key, one reports 0 and nobody reports a pressure.
C9_Witness ==
    /\ combined.ok
    /\ \E i, j, k \in 1..Len(data_list) :
           /\ "temperature" \in DOMAIN data_list[i]
           /\ data_list[i]["temperature"] = PyNone
           /\ "temperature" \notin DOMAIN data_list[j]
           /\ "temperature" \in DOMAIN data_list[k]
           /\ data_list[k]["temperature"] = PyInt(0)
    /\ combined.value.v["temperature_count"] = PyInt(1)
    /\ Reporters("pressure") = {}

\* C10: combine_sources([]) returns the empty dict and does not raise.
C10_EmptyInput ==
    (combined # Pending /\ data_list = <<>>) =>
        combined = Returned(PyDict(EmptyMap))

\* The call on the empty list has returned.
C10_Witness ==
    /\ data_list = <<>>
    /\ combined.ok
    /\ DOMAIN combined.value.v = {}

(***************************************************************************)
(* Claims about detect_anomalies and standardize_data (SpecNormalize)      *)
(***************************************************************************)
\* The rational v is below lo or above hi.
Beyond(v, lo, hi) == v.n < lo * v.d \/ v.n > hi * v.d

\* The rational v equals n / d.
IsRatio(v, n, d) == v.t = "num" /\ v.n * d = n * v.d

Missing(field) == field \notin DOMAIN raw_data \/ raw_data[field] = PyNone

\* C11 (out-of-range temperature is an error): when the temperature of the
\* record is a number outside [-50, 60], detect_anomalies returns a list
\* whose first anomaly is for the field temperature with severity error.
C11_OutOfRangeIsError ==
    /\ detected # Pending
    /\ ~Missing("temperature")
    /\ raw_data["temperature"].t = "num"
    /\ Beyond(raw_data["temperature"], -50, 60)
    => /\ detected.ok
       /\ detected.value # <<>>
       /\ detected.value[1].field = "temperature"
       /\ detected.value[1].severity = "error"

\* C12 (missing critical fields): for each of temperature and humidity that
\* is absent or None, detect_anomalies reports an anomaly of severity error
\* for that field, whatever the other fields contain.
C12_MissingCritical ==
    \A f \in {"temperature", "humidity"} :
        detected # Pending /\ Missing(f)
        => /\ detected.ok
           /\ \E i \in 1..Len(detected.value) :
                  /\ detected.value[i].field = f
                  /\ detected.value[i].severity = "error"

\* C13 (anomalies are never exceptions): for every payload and provider,
\* standardize_data returns a record; it never raises.
C13_StandardizeNeverRaises ==
    standardized # Pending => standardized.ok

\* Alias j of the list is in the payload with a value other than None.
Supplied(aliases, j) ==
    aliases[j] \in DOMAIN raw_data /\ raw_data[aliases[j]] # PyNone

\* C14 (alias resolution): for each canonical field, the value resolved
\* before unit conversion is that of the first alias, in priority order,
\* present in the payload with a value other than None; an alias that is
\* None is skipped; the field is absent when no alias has a value.
C14_AliasResolution ==
    mapped # Pending =>
        \A i \in 1..Len(field_mapping) :
            LET canonical == field_mapping[i][1]
                aliases == field_mapping[i][2]
            IN IF \E j \in 1..Len(aliases) : Supplied(aliases, j)
               THEN /\ canonical \in DOMAIN mapped.value
                    /\ \E j \in 1..Len(aliases) :
                          /\ Supplied(aliases, j)
                          /\ \A k \in 1..(j - 1) : ~Supplied(aliases, k)
                          /\ mapped.value[canonical] = raw_data[aliases[j]]
               ELSE canonical \notin DOMAIN mapped.value

\* temperature is None, temp is 25: the record gets 25.
C14_Witness ==
    /\ mapped # Pending
    /\ "temperature" \in DOMAIN raw_data
    /\ raw_data["temperature"] = PyNone
    /\ "temp" \in DOMAIN raw_data
    /\ raw_data["temp"] = PyInt(25)
    /\ mapped.value["temperature"] = PyInt(25)

\* standardize_data returned a record for a payload whose field resolves to
\* a number.
Converted(field) ==
    /\ standardized # Pending
    /\ standardized.ok
    /\ field \in DOMAIN mapped.value
    /\ mapped.value[field].t = "num"

\* C15 as stated (Kelvin heuristic is a magnitude check): for any provider a
\* temperature strictly above 100 comes out 273.15 lower, and a temperature
\* of 100 or below comes out unchanged.
C15_KelvinAnyProvider ==
    Converted("temperature") =>
        LET t == mapped.value["temperature"]
            out == standardized.value.v["temperature"]
        IN IF t.n > 100 * t.d
           THEN IsRatio(out, 100 * t.n - 27315 * t.d, 100 * t.d)
           ELSE out = t

\* C15 as amended: when standardize_data returns a record, a temperature
\* strictly above 100 comes out 273.15 lower if the provider is
\* OpenWeatherMap; a temperature of 100 or below, and every temperature of
\* another provider, comes out unchanged.
C15_KelvinOpenWeatherMap ==
    Converted("temperature") =>
        LET t == mapped.value["temperature"]
            out == standardized.value.v["temperature"]
        IN IF provider = "OpenWeatherMap" /\ t.n > 100 * t.d
           THEN IsRatio(out, 100 * t.n - 27315 * t.d, 100 * t.d)
           ELSE out = t

\* 300.15 from OpenWeatherMap comes out as 27.
C15_Witness ==
    /\ Converted("temperature")
    /\ provider = "OpenWeatherMap"
    /\ IsRatio(mapped.value["temperature"], 30015, 100)
    /\ standardized.value.v["temperature"] = PyInt(27)

\* C16 (wind-speed conversion is keyed off provider identity): wind_speed
\* comes out multiplied by 3.6, once, exactly when the provider is
\* OpenWeatherMap, and unchanged for every other provider.
C16_WindSpeedByProvider ==
    Converted("wind_speed") =>
        LET w == mapped.value["wind_speed"]
            out == standardized.value.v["wind_speed"]
        IN /\ provider = "OpenWeatherMap" => IsRatio(out, 36 * w.n, 10 * w.d)
           /\ provider # "OpenWeatherMap" => out = w

\* 10 m/s from OpenWeatherMap comes out as 36 km/h.
C16_Witness ==
    /\ Converted("wind_speed")
    /\ provider = "OpenWeatherMap"
    /\ mapped.value["wind_speed"] = PyInt(10)
    /\ standardized.value.v["wind_speed"] = PyInt(36)

(***************************************************************************)
(* Claims about the providers (SpecSource)                                 *)
(***************************************************************************)
\* The exchange of the last call ended with a response that
\* raise_for_status accepts.
ProbeAnswered ==
    /\ invocation.exchange.kind = "response"
    /\ invocation.exchange.status_code < 400

\* C17 (forecast days clamp): whatever days is asked for, Open-Meteo is
\* asked for and reports forecast_days = min(days, 16), OpenWeatherMap is
\* asked for cnt = 8 * min(days, 5) and reports forecast_days = min(days, 5),
\* and get_forecast fails only when the exchange with the provider fails,
\* never because of days.
C17_ForecastDaysClamp ==
    invocation.op = "get_forecast" =>
        LET cap == IF invocation.name = "Open-Meteo" THEN 16 ELSE 5
            clamped == IF invocation.days > cap THEN cap ELSE invocation.days
        IN /\ outbound.method = "GET"
           /\ invocation.name = "Open-Meteo" =>
                  outbound.params.v["forecast_days"] = PyInt(clamped)
           /\ invocation.name = "OpenWeatherMap" =>
                  outbound.params.v["cnt"] = PyInt(8 * clamped)
           /\ answer.ok <=> ProbeAnswered /\ invocation.exchange.json
           /\ answer.ok => answer.value.v["forecast_days"] = PyInt(clamped)

\* Seven days asked of OpenWeatherMap: 40 measurements asked for, 5 days
\* reported.
C17_Witness ==
    /\ invocation.op = "get_forecast"
    /\ invocation.name = "OpenWeatherMap"
    /\ invocation.days = 7
    /\ outbound.params.v["cnt"] = PyInt(40)
    /\ answer.ok
    /\ answer.value.v["forecast_days"] = PyInt(5)

\* C18 (is_available never throws): whatever the probe request ends with,
\* is_available returns a boolean: False whenever the probe failed, True
\* only when the probe returned a response.
C18_IsAvailableNeverThrows ==
    invocation.op = "is_available" =>
        /\ answer.ok
        /\ answer.value \in BOOLEAN
        /\ ~ProbeAnswered => answer.value = FALSE
        /\ answer.value = TRUE => invocation.exchange.kind = "response"

\* The probe times out and is_available returns False.
C18_Witness ==
    /\ invocation.op = "is_available"
    /\ invocation.exchange.kind = "raises"
    /\ invocation.exchange.exc = "Timeout"
    /\ answer = Returned(FALSE)

\* C19 (API key attachment): every request a keyed provider sends carries a
\* key parameter; when the caller's params have neither appid nor key the
\* provider's key is added under key and nothing else changes, when they
\* have one of them the params are sent as they are; the caller's own dict
\* is the same after the call.
C19_ApiKeyAttachment ==
    /\ truthy(api_key) /\ outbound # NoRequestSent =>
          \/ "appid" \in DOMAIN outbound.params.v
          \/ "key" \in DOMAIN outbound.params.v
    /\ invocation.op = "_make_request" /\ truthy(api_key) =>
          LET given == invocation.params.v
              sent == outbound.params.v
          IN /\ outbound # NoRequestSent
             /\ IF "appid" \notin DOMAIN given /\ "key" \notin DOMAIN given
                THEN /\ DOMAIN sent = DOMAIN given \cup {"key"}
                     /\ sent["key"] = api_key
                     /\ \A k \in DOMAIN given : sent[k] = given[k]
                ELSE sent = given
             /\ invocation.params_after = invocation.params

\* A keyed provider is called with latitude and longitude only, and the
\* request carries its key.
C19_Witness ==
    /\ invocation.op = "_make_request"
    /\ api_key = PyStr("secret")
    /\ DOMAIN invocation.params.v = {"latitude", "longitude"}
    /\ outbound.params.v["key"] = PyStr("secret")
    /\ invocation.params_after = invocation.params

(***************************************************************************)
(* Claims about CacheManager.invalidate (SpecCache)                        *)
(***************************************************************************)
\* C20 (provider-scoped invalidation in the memory tier is precise): after
\* any sets, invalidate(P) in the memory tier removes exactly the entries
\* stored under provider P and returns their number, every later get for P
\* misses, and the entries of the other providers stay retrievable.
C20_ScopedInvalidation ==
    (call.op = "invalidate" /\ backend = "memory" /\ call.source # PyNone) =>
        LET of_P == {q \in call.held : q[1] = call.source.s}
        IN /\ call.ret = Cardinality(of_P)
           /\ \A q \in ParamDicts : get(call.source.s, q).ret = PyNone
           /\ \A q \in call.held \ of_P :
                  /\ written[q].live
                  /\ _generate_key(q[1], written[q].params) \in DOMAIN cache

(***************************************************************************)
(* Claims about _retry_with_backoff for every attempt budget (SpecRetry)   *)
(***************************************************************************)
\* C30 (backoff helper outcome for every attempt budget): for every
\* max_attempts >= 0 the helper ends by returning a result func returned or
\* by raising an exception func itself raised, never an error of its own.
C30_BackoffOutcome ==
    /\ outcome.kind = "returned" => outcome.value = outcome.func_value
    /\ outcome.kind = "raised" =>
           \E i \in 1..Len(raised) : raised[i] = outcome.exc

(***************************************************************************)
(* Claims about validate_and_clean (SpecClean)                             *)
(***************************************************************************)
\* The anomalies of severity "error" that detect_anomalies reports on data.
ErrorAnomalies(data) ==
    SelectSeq(detect_anomalies(data, "Medellin").value,
              LAMBDA a : a.severity = "error")

\* C25 (validateAndClean result): on a combined record the call never raises;
\* whenever it returns, the result carries validation_errors equal to the
\* error-severity anomalies of the record (no such key when there are none),
\* a None precipitation has become 0, and every other field is as it was,
\* no absent field having been added.
C25_ValidateAndClean ==
    cleaning \notin {Pending, NotApplied} =>
        /\ record_origin = "combine_sources" => cleaning.ok
        /\ cleaning.ok =>
             LET out == cleaning.value.v
                 errs == ErrorAnomalies(record_before)
             IN /\ DOMAIN out \ {"validation_errors"} = DOMAIN record_before
                /\ "validation_errors" \in DOMAIN out <=> errs # <<>>
                /\ "validation_errors" \in DOMAIN out
                       => out["validation_errors"] = PyList(errs)
                /\ \A k \in DOMAIN record_before :
                       out[k] = IF k = "precipitation"
                                   /\ record_before[k] = PyNone
                                THEN PyInt(0) ELSE record_before[k]

\* A record with error anomalies, a None precipitation and a None humidity
\* has been cleaned.
C25_Witness ==
    /\ cleaning \notin {Pending, NotApplied}
    /\ cleaning.ok
    /\ "precipitation" \in DOMAIN record_before
    /\ record_before["precipitation"] = PyNone
    /\ "humidity" \in DOMAIN record_before
    /\ record_before["humidity"] = PyNone
    /\ "validation_errors" \in DOMAIN cleaning.value.v

\* C26 (purity of combine and validateAndClean): the record passed to
\* validate_and_clean is equal before and after the call.
C26_ArgumentUnchanged ==
    cleaning \notin {Pending, NotApplied} => record = record_before

(***************************************************************************)
(* Claims about acquisitions through the cache as time passes (SpecTimed)  *)
(***************************************************************************)
\* The last set issued for the query is still within its time to live.
Fresh(q) ==
    /\ q \in DOMAIN written
    /\ written[q].live
    /\ now - written[q].at < TtlSeconds

\* The step is one pass of the loop of get_data_for_location.
PassMade == Len(attempts') = Len(attempts) + 1

\* C24 (transparent caching in acquireCurrent): with caching enabled, a
\* pass for a provider whose observation was stored less than the time to
\* live ago appends that stored observation without calling the provider;
\* in every other case (nothing stored yet, or the time to live is over) the
\* provider is called.
C24_TransparentCaching ==
    [][ (PassMade /\ request.use_cache) =>
          LET a == attempts'[Len(attempts')]
              q == <<a.source, ItemSet(cache_key(a.source))>>
          IN /\ Fresh(q) => /\ a.via = "cache"
                            /\ results' = Append(results, written[q].value)
             /\ ~Fresh(q) => a.via = "fetch" ]_vars

\* A second acquisition has been answered from the cache after time passed.
C24_Witness ==
    /\ requests = 2
    /\ request.use_cache
    /\ now > 0
    /\ attempts # <<>>
    /\ attempts[Len(attempts)].via = "cache"
    /\ results # <<>>

\* What a lookup of the query returns in the state the step leads to.
LookupAfter(name, key) ==
    tier_get(backend', cache', _cache_timestamps', name, key, now').ret

\* C29 (failures are not cached): when the fetch or standardize_data raises
\* in get_data_for_location or get_forecast_for_location, a lookup of that
\* provider and query returns after the failure what it returned before it,
\* and the record of stored values is unchanged; with caching enabled the
\* lookup is a miss, so the next acquisition calls the provider again.
C29_FailuresNotCached ==
    [][ \A name \in {ProviderNames[i] : i \in 1..Len(ProviderNames)} :
          /\ (PassMade /\ attempts'[Len(attempts')].via = "fetch"
                /\ attempts'[Len(attempts')].source = name
                /\ results' = results) =>
                  /\ written' = written
                  /\ LookupAfter(name, cache_key(name))
                         = get(name, cache_key(name)).ret
                  /\ request.use_cache
                         => ~truthy(LookupAfter(name, cache_key(name)))
          /\ \A days \in ForecastDays :
               (forecast_call' # forecast_call
                  /\ forecast_call'.via = "fetch"
                  /\ ~forecast_call'.result.ok
                  /\ forecast_call'.source = name
                  /\ forecast_call'.args.days = days) =>
                    /\ written' = written
                    /\ LookupAfter(name, forecast_cache_key(name, days))
                           = get(name, forecast_cache_key(name, days)).ret
                    /\ forecast_call'.args.use_cache
                           => ~truthy(LookupAfter(name,
                                  forecast_cache_key(name, days))) ]_vars

\* A provider failed in get_data_for_location and later a forecast failed,
\* both with caching enabled.
C29_Witness ==
    /\ request.use_cache
    /\ errors # <<>>
    /\ forecast_call.via = "fetch"
    /\ ~forecast_call.result.ok
    /\ forecast_call.args.use_cache

(***************************************************************************)
(* Claims about the two tiers side by side (SpecTiers)                     *)
(***************************************************************************)
\* C21 (tier equivalence): after every sequence of get, set, invalidate()
\* and invalidate(provider) given to both tiers on the same clock, a get
\* returns the same on the durable tier as on the memory tier.
C21_TiersAgree ==
    both.op = "get" => both.disk = both.memory

(***************************************************************************)
(* Claims about failures inside CacheManager.get and set (SpecFaults)      *)
(***************************************************************************)
\* C22 (cache failures never propagate): whatever the provider name, the
\* params, the value and the state of the store, no exception of get or set
\* reaches the caller; a get that fails returns None, a set that fails
\* returns False, and the entries are as they were.
C22_NoCacheException ==
    call.op \in {"get", "set"} =>
        /\ call.exc = "none"
        /\ call.storage = "error" =>
               /\ call.same
               /\ call.ret = IF call.op = "get" THEN PyNone ELSE FALSE

(***************************************************************************)
(* Claims about object identity in the cache (SpecRef)                     *)
(***************************************************************************)
\* C23 (copy semantics): in either tier, what a get of the key returns
\* within the TTL is the value as set stored it, whatever the caller has
\* done since to the object it passed to set or to an object that get or
\* get_data_for_location returned.
C23_CopySemantics ==
    slot # NoSlot => PyDict(slot_items) = last_stored

(***************************************************************************)
(* Claims about threads sharing the memory tier (SpecRace)                 *)
(***************************************************************************)
\* Every call that was started has returned.
AllCompleted == \A t \in 1..MaxThreads : threads[t].op = "idle"

\* The sets that no other set follows: no set was entered after they had
\* returned.  Any of them may be the last write.
LastWrites ==
    {i \in 1..Len(sets_done) :
        \A j \in 1..Len(sets_done) : sets_done[j].entered < i}

\* C27 (same-key concurrency in the memory tier): once every concurrent get
\* and set on the key has returned, the value map and the timestamp map hold
\* the same keys, and a get within the TTL of the last writes returns the
\* value of one of them.
C27_SameKeyRaces ==
    AllCompleted =>
        /\ DOMAIN race_cache = DOMAIN race_stamps
        /\ (sets_done # <<>>
              /\ \A i \in LastWrites :
                    race_clock - sets_done[i].at < TtlSeconds) =>
               \E i \in LastWrites :
                  tier_get("memory", race_cache, race_stamps, "Open-Meteo",
                           RaceParams, race_clock).ret = sets_done[i].value

(***************************************************************************)
(* Claims about the station list memo (SpecStations)                       *)
(***************************************************************************)
\* The requests for the station list that upstream answered with a list.
Fetched == SelectSeq(upstream, LAMBDA a : a.ok)

\* C28 (station-list memo guarded against first-population races): however
\* the get_stations calls of several threads interleave, the station list
\* is fetched from upstream at most once.
C28_StationsFetchedOnce == Len(Fetched) <= 1

====
